---- MODULE Spec2Model ----
(***************************************************************************)
(* A model of the Commit engine of atomic-data-rust: Commit::apply_opts,   *)
(* Commit::apply_changes, Commit::into_resource, the deterministic         *)
(* serialization used for signing, CommitBuilder::sign / sign_at, and the  *)
(* Storelike operations they call.                                         *)
(*                                                                         *)
(* Strings that hold URLs are records [path, sig]: `path` is the string    *)
(* cut into chunks (no chunk is a prefix of another, so "starts with" on   *)
(* the string is "is a prefix" on the chunks) and `sig` holds the          *)
(* signature a Commit URL ends with (empty otherwise).  A signature is the *)
(* pair of the message signed and the private key that signed it.          *)
(***************************************************************************)
EXTENDS Integers, Sequences, FiniteSets, TLC

VARIABLES
    resources,   \* the store: subject |-> PropVals of the stored resource
    index,       \* the inverted value index: a set of [p, v, s] entries
    pc,          \* sequential caller: "idle", "called" or "returned"
    req,         \* the pending apply_opts call: [c, opts, now, db]
    resp,        \* what the call returned (the final frame of apply_opts)
    resources0,  \* the store as it was when the call was made
    index0,      \* the index as it was when the call was made
    procs,       \* concurrent callers: process |-> frame of its apply_opts call
    canon        \* the string serialize_deterministically_json_ad returned last

vars == <<resources, index, pc, req, resp, resources0, index0, procs, canon>>

-----------------------------------------------------------------------------
(* Option<T> *)

None == << >>
Some(x) == <<x>>
IsSome(o) == Len(o) = 1
Unwrap(o) == o[1]

-----------------------------------------------------------------------------
(* Strings and URLs *)

Str(chunks) == [path |-> chunks, sig |-> None]

\* Model bounds
MaxCommits == 3

\* The hosts a URL of the model can have, and the query strings.
Origins == {"https://h", "https://atomicdata.dev", "https://shop.h", "https://blog.h"}
QueryChunks == {"?q=1"}

\* url::Url::parse(&self.subject) succeeds: the string is an absolute URL.
UrlParseOk(s) == Len(s.path) > 0 /\ s.path[1] \in Origins

\* A faulty variant of HasQuery: no subject is seen as having a query.
HasQueryNever(s) == FALSE

\* subject_url.query().is_some()
HasQuery(s) == \E i \in 1..Len(s.path) : s.path[i] \in QueryChunks

\* str::starts_with
StartsWith(s, p) ==
    IF p.sig = None
    THEN /\ Len(p.path) <= Len(s.path)
         /\ SubSeq(s.path, 1, Len(p.path)) = p.path
    ELSE s = p

ServerUrl == Str(<<"https://h">>)
SelfUrl == Some(ServerUrl)

SubjA == Str(<<"https://h", "/a">>)
SubjAB == Str(<<"https://h", "/a", "/b">>)
SubjC == Str(<<"https://h", "/c">>)
SubjNoUrl == Str(<<"invalid URL">>)
SubjQuery == Str(<<"https://h", "/", "?q=1">>)

PropUrl(name) == Str(<<"https://atomicdata.dev", "/properties/", name>>)
ClassUrl(name) == Str(<<"https://atomicdata.dev", "/classes/", name>>)

\* The property URLs of the model, by their last segment, in the
\* lexicographic order of the URLs.
PropOrder ==
    <<"createdAt", "description", "destroy", "isA", "lastCommit", "parent",
      "previousCommit", "publicKey", "push", "remove", "set", "signature",
      "signer", "subject", "write">>

-----------------------------------------------------------------------------
(* Values: <<datatype tag, carrier>> *)

VStr(s) == <<"str", s>>
VUrl(u) == <<"url", u>>
VArr(us) == <<"arr", us>>
VBool(b) == <<"bool", b>>
VInt(n) == <<"int", n>>
VNested(pv) == <<"nested", pv>>
VSig(s) == <<"sig", s>>

\* Value::to_string of an AtomicUrl is the URL itself.
ValueToString(v) == IF v[1] = "url" THEN v[2] ELSE Str(<<v[1]>>)

\* The datatype each property declares.
DataTypeOf(prop) ==
    CASE prop = "description" -> "str"
      [] prop = "isA" -> "arr"
      [] prop = "lastCommit" -> "url"
      [] prop = "parent" -> "url"
      [] prop = "write" -> "arr"
      [] prop = "publicKey" -> "str"
      [] OTHER -> "str"

\* The properties each class requires.
ClassRequires(class) ==
    CASE class = ClassUrl("Doc") -> {"description"}
      [] class = ClassUrl("Commit") -> {"subject", "createdAt", "signer"}
      [] OTHER -> {}

KnownClasses ==
    {ClassUrl("Doc"), ClassUrl("Commit"), ClassUrl("Agent"), ClassUrl("Drive"),
     ClassUrl("Message")}

-----------------------------------------------------------------------------
(* PropVals and Resources *)

EmptyPropVals == << >>

Has(pv, prop) == prop \in DOMAIN pv

\* Resource::set_propval_unsafe
SetUnsafe(pv, prop, val) ==
    [x \in (DOMAIN pv) \cup {prop} |-> IF x = prop THEN val ELSE pv[x]]

\* Resource::remove_propval
RemovePropval(pv, prop) == [x \in (DOMAIN pv) \ {prop} |-> pv[x]]

\* Resource::set_propval validates the value against the property's datatype.
SetPropvalOk(prop, val) == val[1] = DataTypeOf(prop)

Resource(subject, pv) == [subject |-> subject, propvals |-> pv]

NoResource == Resource(Str(<< >>), EmptyPropVals)

\* Resource::to_atoms
ToAtoms(res) ==
    {[s |-> res.subject, p |-> prop, v |-> res.propvals[prop]] :
        prop \in DOMAIN res.propvals}

\* The index keys one atom stands for: one per element of a ResourceArray,
\* the value itself otherwise.
IndexKeys(atom) ==
    IF atom.v[1] = "arr"
    THEN {[s |-> atom.s, p |-> atom.p, v |-> VUrl(atom.v[2][i])] :
             i \in 1..Len(atom.v[2])}
    ELSE {atom}

IndexKeysOf(atoms) == UNION {IndexKeys(a) : a \in atoms}

\* Resource::check_required_props
CheckRequiredProps(pv) ==
    IF Has(pv, "isA")
    THEN \A i \in 1..Len(pv["isA"][2]) :
            ClassRequires(pv["isA"][2][i]) \subseteq DOMAIN pv
    ELSE TRUE

\* Resource::get_classes: the classes of `isA`; fails on an unknown class.
GetClassesOk(pv) ==
    IF Has(pv, "isA")
    THEN \A i \in 1..Len(pv["isA"][2]) : pv["isA"][2][i] \in KnownClasses
    ELSE TRUE

HasClass(pv, class) ==
    /\ Has(pv, "isA")
    /\ \E i \in 1..Len(pv["isA"][2]) : pv["isA"][2][i] = class

-----------------------------------------------------------------------------
(* The Storelike operations, on a store st (subject |-> PropVals) and an   *)
(* index idx.                                                              *)

\* Storelike::get_resource
Stored(st, subject) == subject \in DOMAIN st
GetResource(st, subject) == Resource(subject, st[subject])

\* Storelike::add_resource_opts(resource, check_required_props, update_index,
\* overwrite_existing): [ok, st, idx]
AddResourceOpts(st, idx, res, check_required, update_index, overwrite) ==
    IF (~overwrite /\ Stored(st, res.subject))
       \/ (check_required /\ ~CheckRequiredProps(res.propvals))
    THEN [ok |-> FALSE, st |-> st, idx |-> idx]
    ELSE [ok |-> TRUE,
          st |-> [x \in (DOMAIN st) \cup {res.subject} |->
                     IF x = res.subject THEN res.propvals ELSE st[x]],
          idx |-> IF update_index
                  THEN (idx \ (IF Stored(st, res.subject)
                               THEN IndexKeysOf(ToAtoms(GetResource(st, res.subject)))
                               ELSE {}))
                       \cup IndexKeysOf(ToAtoms(res))
                  ELSE idx]

\* Storelike::remove_resource: errors if absent.
RemoveResource(st, subject) ==
    IF Stored(st, subject)
    THEN [ok |-> TRUE, st |-> [x \in (DOMAIN st) \ {subject} |-> st[x]]]
    ELSE [ok |-> FALSE, st |-> st]

\* Storelike::add_atom_to_index / remove_atom_from_index
AddAtomToIndex(idx, atom) == idx \cup IndexKeys(atom)
RemoveAtomFromIndex(idx, atom) == idx \ IndexKeys(atom)

-----------------------------------------------------------------------------
(* Agents and signatures *)

KeyPairs == {<<"skA", "pkA">>, <<"skB", "pkB">>}

AgentSubject(pub) == Str(<<"https://h", "/a", "gents/", pub>>)

Agent(priv, pub) ==
    [subject |-> AgentSubject(pub), private_key |-> priv, public_key |-> pub]

AgentA == Agent(Some("skA"), "pkA")
AgentB == Agent(Some("skB"), "pkB")

\* sign_message(message, private_key, public_key): the keypair must match.
SignMessageOk(priv, pub) == <<priv, pub>> \in KeyPairs
SignMessage(message, priv, pub) == [msg |-> message, key |-> priv]

\* ring's UnparsedPublicKey::verify(message, signature)
Verify(pub, message, signature) ==
    /\ signature.msg = message
    /\ <<signature.key, pub>> \in KeyPairs

-----------------------------------------------------------------------------
(* Commit *)

Commit(subject, created_at, signer, set, remove, destroy, signature, push, prev) ==
    [subject |-> subject, created_at |-> created_at, signer |-> signer,
     set |-> set, remove |-> remove, destroy |-> destroy,
     signature |-> signature, push |-> push,
     previous_commit |-> prev]

\* A faulty variant of CommitUrl: the signature is not used.
CommitUrlByTime(signature, now) ==
    Str(ServerUrl.path \o <<"/c", "ommits-unsigned/", ToString(now)>>)

\* <server>/commits/<signature> and <server>/commits-unsigned/<now>
CommitUrl(signature, now) ==
    IF IsSome(signature)
    THEN [path |-> ServerUrl.path \o <<"/c", "ommits/">>, sig |-> signature]
    ELSE Str(ServerUrl.path \o <<"/c", "ommits-unsigned/", ToString(now)>>)

\* Commit::into_resource fails when subject or signer is no URL (Value::new).
IntoResourceOk(c) == UrlParseOk(c.subject) /\ UrlParseOk(c.signer)

IntoResourcePropvals(c) ==
    LET p0 == [subject |-> VUrl(c.subject),
               isA |-> VArr(<<ClassUrl("Commit")>>),
               createdAt |-> VInt(c.created_at),
               signer |-> VUrl(c.signer)]
        p1 == IF IsSome(c.set)
              THEN SetUnsafe(p0, "set", VNested(Unwrap(c.set))) ELSE p0
        p2 == IF IsSome(c.remove) /\ Unwrap(c.remove) # << >>
              THEN SetUnsafe(p1, "remove",
                       VArr([i \in 1..Len(Unwrap(c.remove)) |->
                                PropUrl(Unwrap(c.remove)[i])]))
              ELSE p1
        p3 == IF IsSome(c.destroy) /\ Unwrap(c.destroy)
              THEN SetUnsafe(p2, "destroy", VBool(TRUE)) ELSE p2
        p4 == IF IsSome(c.previous_commit)
              THEN SetUnsafe(p3, "previousCommit", VUrl(Unwrap(c.previous_commit)))
              ELSE p3
        p5 == IF IsSome(c.signature)
              THEN SetUnsafe(p4, "signature", VSig(Unwrap(c.signature))) ELSE p4
        p6 == IF IsSome(c.push) /\ Unwrap(c.push) # << >>
              THEN SetUnsafe(p5, "push", VNested(Unwrap(c.push))) ELSE p5
    IN p6

\* Commit::into_resource
IntoResource(c, now) ==
    Resource(CommitUrl(c.signature, now), IntoResourcePropvals(c))

NoCommit == Commit(Str(<< >>), 0, Str(<< >>), None, None, None, None, None, None)

\* Commit::from_resource on the parts of the resource, with previous_commit
\* as given: [ok, commit, url].  Subject, createdAt, signer and signature
\* must be there; the values must have the kind their getter converts.
FromResourceWith(res, previous_commit) ==
    LET pv == res.propvals
        opt(prop, kind) == ~Has(pv, prop) \/ pv[prop][1] = kind
    IN IF /\ Has(pv, "subject") /\ Has(pv, "createdAt") /\ pv["createdAt"][1] = "int"
          /\ Has(pv, "signer") /\ Has(pv, "signature")
          /\ opt("set", "nested") /\ opt("push", "nested")
          /\ opt("remove", "arr") /\ opt("destroy", "bool")
       THEN [ok |-> TRUE,
             commit |->
                Commit(ValueToString(pv["subject"]), pv["createdAt"][2],
                       ValueToString(pv["signer"]),
                       IF Has(pv, "set") THEN Some(pv["set"][2]) ELSE None,
                       IF Has(pv, "remove")
                       THEN Some([i \in 1..Len(pv["remove"][2]) |->
                                     pv["remove"][2][i].path[3]])
                       ELSE None,
                       IF Has(pv, "destroy") THEN Some(pv["destroy"][2]) ELSE None,
                       Some(pv["signature"][2]),
                       IF Has(pv, "push") THEN Some(pv["push"][2]) ELSE None,
                       previous_commit),
             url |-> Some(res.subject)]
       ELSE [ok |-> FALSE, commit |-> NoCommit, url |-> None]

\* A faulty variant of FromResource: the previous commit is not read.
FromResourceWithoutPrevious(res) == FromResourceWith(res, None)

\* Commit::from_resource(resource)
FromResource(res) ==
    FromResourceWith(res,
        IF Has(res.propvals, "previousCommit")
        THEN Some(ValueToString(res.propvals["previousCommit"]))
        ELSE None)

\* serialize::propvals_to_json_ad_map + serde_json::to_string: the JSON text
\* as the sequence of its <<key, value>> members, keys in lexicographic order,
\* nested maps likewise.
RECURSIVE PropvalsToJson(_)
PropvalsToJson(pv) ==
    LET keys == SelectSeq(PropOrder, LAMBDA k : k \in DOMAIN pv)
    IN [i \in 1..Len(keys) |->
           <<PropUrl(keys[i]),
             IF pv[keys[i]][1] = "nested"
             THEN <<"obj", PropvalsToJson(pv[keys[i]][2])>>
             ELSE pv[keys[i]]>>]

\* The rank of a property URL in the lexicographic order of the URLs.
UrlRank(u) == CHOOSE i \in 1..Len(PropOrder) : PropOrder[i] = u.path[3]

\* A faulty variant of JsonInsert: the map keeps the order of insertion.
JsonAppend(members, key, val) ==
    Append(SelectSeq(members, LAMBDA e : e[1] # key), <<key, val>>)

\* serde_json::Map::insert: the map is ordered by key.
JsonInsert(members, key, val) ==
    SelectSeq(members, LAMBDA e : UrlRank(e[1]) < UrlRank(key))
    \o << <<key, val>> >>
    \o SelectSeq(members, LAMBDA e : UrlRank(e[1]) > UrlRank(key))

\* serialize::propvals_to_json_ad_map as it runs: the PropVals (a HashMap)
\* are iterated in the order `ord` and each member is inserted into the JSON
\* map; a nested resource is serialized the same way.
RECURSIVE PropvalsToJsonAdMap(_, _)
RECURSIVE JsonFold(_, _, _, _)
JsonFold(keys, pv, ord, acc) ==
    IF keys = << >> THEN acc
    ELSE LET k == Head(keys)
             v == IF pv[k][1] = "nested"
                  THEN <<"obj", PropvalsToJsonAdMap(pv[k][2], ord)>>
                  ELSE pv[k]
         IN JsonFold(Tail(keys), pv, ord, JsonInsert(acc, PropUrl(k), v))

PropvalsToJsonAdMap(pv, ord) ==
    JsonFold(SelectSeq(ord, LAMBDA k : k \in DOMAIN pv), pv, ord, << >>)

\* A faulty variant of SerializeStrip: the signature is kept.
SerializeWithSignature(pv) == pv

\* line 532: the signature is removed from the commit resource before it is
\* serialized.
SerializeStrip(pv) == RemovePropval(pv, "signature")

\* Commit::serialize_deterministically_json_ad
SerializeDeterministically(c) ==
    PropvalsToJson(SerializeStrip(IntoResourcePropvals(c)))

\* Commit::serialize_deterministically_json_ad in a run whose HashMaps
\* iterate in the order `ord`.
SerializeInOrder(c, ord) ==
    PropvalsToJsonAdMap(SerializeStrip(IntoResourcePropvals(c)), ord)

\* CommitBuilder
Builder(subject, set, push, remove, destroy, previous_commit) ==
    [subject |-> subject, set |-> set, push |-> push, remove |-> remove,
     destroy |-> destroy, previous_commit |-> previous_commit]

\* sign_at(commitbuilder, agent, sign_date, store): [ok, commit]
SignAt(b, agent, sign_date) ==
    LET commit == Commit(b.subject, sign_date, agent.subject, Some(b.set),
                         Some(b.remove), Some(b.destroy), None, Some(b.push),
                         b.previous_commit)
    IN IF /\ IntoResourceOk(commit)
          /\ IsSome(agent.private_key)
          /\ SignMessageOk(Unwrap(agent.private_key), agent.public_key)
       THEN [ok |-> TRUE,
             commit |-> [commit EXCEPT !.signature =
                            Some(SignMessage(SerializeDeterministically(commit),
                                             Unwrap(agent.private_key),
                                             agent.public_key))]]
       ELSE [ok |-> FALSE, commit |-> commit]

\* A faulty variant of Sign: the lastCommit of the resource is not read.
SignWithoutPrevious(b, agent, res, now) == SignAt(b, agent, now)

\* CommitBuilder::sign(agent, store, resource): previousCommit from the
\* lastCommit of the resource the caller holds.
Sign(b, agent, res, now) ==
    SignAt(IF Has(res.propvals, "lastCommit")
           THEN [b EXCEPT !.previous_commit =
                            Some(ValueToString(res.propvals["lastCommit"]))]
           ELSE b,
           agent, now)

ACCEPTABLE_TIME_DIFFERENCE == 10000

\* A faulty variant of CheckTimestamp: a timestamp at the end of the window
\* is rejected too.
CheckTimestampStrict(timestamp, now) ==
    ~(timestamp >= now + ACCEPTABLE_TIME_DIFFERENCE)

\* check_timestamp
CheckTimestamp(timestamp, now) == ~(timestamp > now + ACCEPTABLE_TIME_DIFFERENCE)

\* The signature phase of apply_opts: "ok" or the error.
SignatureCheck(c, st) ==
    IF ~IsSome(c.signature) THEN "no_signature"
    ELSE IF ~Stored(st, c.signer) THEN "signer_not_found"
    ELSE IF ~Has(st[c.signer], "publicKey") THEN "no_public_key"
    ELSE IF ~IntoResourceOk(c) THEN "serialize"
    ELSE IF ~Verify(st[c.signer]["publicKey"][2],
                    SerializeDeterministically(c), Unwrap(c.signature))
    THEN "bad_signature"
    ELSE "ok"

-----------------------------------------------------------------------------
(* Hierarchy: rights are resolved by walking the parent chain. *)

PublicAgent == Str(<<"https://atomicdata.dev", "/agents/", "publicAgent">>)

InArray(pv, prop, u) ==
    /\ Has(pv, prop)
    /\ pv[prop][1] = "arr"
    /\ \E i \in 1..Len(pv[prop][2]) : pv[prop][2][i] = u

\* The walk from a resource toward the root; it gives up after `hops` parents.
RECURSIVE CheckRights(_, _, _, _)
CheckRights(st, pv, agent, hops) ==
    IF InArray(pv, "write", agent) \/ InArray(pv, "write", PublicAgent)
    THEN TRUE
    ELSE IF /\ Has(pv, "parent")
            /\ hops > 0
            /\ Stored(st, ValueToString(pv["parent"]))
         THEN CheckRights(st, st[ValueToString(pv["parent"])], agent, hops - 1)
         ELSE FALSE

\* hierarchy::check_write(store, resource, agent)
CheckWrite(st, res, agent) ==
    CheckRights(st, res.propvals, agent, Cardinality(DOMAIN st))

\* hierarchy::check_append(store, resource, agent): a right on the parent chain.
CheckAppend(st, res, agent) ==
    /\ Has(res.propvals, "parent")
    /\ Stored(st, ValueToString(res.propvals["parent"]))
    /\ CheckRights(st, st[ValueToString(res.propvals["parent"])], agent,
                   Cardinality(DOMAIN st))

-----------------------------------------------------------------------------
(* Commit::apply_changes.  The maps `set` and `push` are HashMaps: `ord`   *)
(* is the order in which this run iterates over their keys.                *)

Atom(subject, prop, val) == [s |-> subject, p |-> prop, v |-> val]

\* A faulty variant of KeysInOrder: only the first entry of the map is
\* visited.
KeysFirstOnly(map, ord) ==
    SubSeq(SelectSeq(ord, LAMBDA k : k \in DOMAIN map), 1, 1)

KeysInOrder(map, ord) == SelectSeq(ord, LAMBDA k : k \in DOMAIN map)

RECURSIVE RemoveLoop(_, _, _, _, _)
RemoveLoop(remove, acc, subject, unedited, update_index) ==
    IF remove = << >> THEN acc
    ELSE LET prop == Head(remove)
         IN RemoveLoop(Tail(remove),
                [acc EXCEPT
                    !.pv = RemovePropval(@, prop),
                    !.rem = IF update_index /\ Has(unedited, prop)
                            THEN Append(@, Atom(subject, prop, unedited[prop]))
                            ELSE @],
                subject, unedited, update_index)

RECURSIVE SetLoop(_, _, _, _, _, _)
SetLoop(keys, set, acc, subject, unedited, update_index) ==
    IF keys = << >> \/ ~acc.ok THEN acc
    ELSE LET prop == Head(keys)
             new_val == set[prop]
         IN IF ~SetPropvalOk(prop, new_val)
            THEN [acc EXCEPT !.ok = FALSE]
            ELSE SetLoop(Tail(keys), set,
                    [acc EXCEPT
                        !.pv = SetUnsafe(@, prop, new_val),
                        !.rem = IF update_index /\ Has(unedited, prop)
                                THEN Append(@, Atom(subject, prop, unedited[prop]))
                                ELSE @,
                        !.add = IF update_index
                                THEN Append(@, Atom(subject, prop, new_val))
                                ELSE @],
                    subject, unedited, update_index)

\* A faulty variant of PushLoop: the pushed elements replace the array.
RECURSIVE PushLoopOverwrite(_, _, _, _, _)
PushLoopOverwrite(keys, push, acc, subject, update_index) ==
    IF keys = << >> \/ ~acc.ok THEN acc
    ELSE LET prop == Head(keys)
             vec == push[prop]
         IN IF \/ (Has(acc.pv, prop) /\ acc.pv[prop][1] # "arr")
               \/ vec[1] # "arr"
            THEN [acc EXCEPT !.ok = FALSE]
            ELSE PushLoopOverwrite(Tail(keys), push,
                    [acc EXCEPT
                        !.pv = SetUnsafe(@, prop, vec),
                        !.add = IF update_index
                                THEN @ \o [i \in 1..Len(vec[2]) |->
                                              Atom(subject, prop, VUrl(vec[2][i]))]
                                ELSE @],
                    subject, update_index)

RECURSIVE PushLoop(_, _, _, _, _)
PushLoop(keys, push, acc, subject, update_index) ==
    IF keys = << >> \/ ~acc.ok THEN acc
    ELSE LET prop == Head(keys)
             vec == push[prop]
         IN IF \/ (Has(acc.pv, prop) /\ acc.pv[prop][1] # "arr")
               \/ vec[1] # "arr"
            THEN [acc EXCEPT !.ok = FALSE]
            ELSE LET old_vec == IF Has(acc.pv, prop) THEN acc.pv[prop][2] ELSE << >>
                     new_vec == vec[2]
                 IN PushLoop(Tail(keys), push,
                        [acc EXCEPT
                            !.pv = SetUnsafe(@, prop, VArr(old_vec \o new_vec)),
                            !.add = IF update_index
                                    THEN @ \o [i \in 1..Len(new_vec) |->
                                                  Atom(subject, prop, VUrl(new_vec[i]))]
                                    ELSE @],
                        subject, update_index)

\* Remove all atoms from index if destroy
DestroyAtoms(c, acc, subject) ==
    IF IsSome(c.destroy) /\ Unwrap(c.destroy)
    THEN LET keys == KeysInOrder(acc.pv, PropOrder)
         IN [acc EXCEPT !.rem = @ \o [i \in 1..Len(keys) |->
                                        Atom(subject, keys[i], acc.pv[keys[i]])]]
    ELSE acc

\* Commit::apply_changes(resource, store, update_index) up to its index
\* calls: [ok, pv, rem, add], the edited resource and the atoms it queued.
ApplyChanges(c, res, update_index, ord) ==
    LET a0 == [ok |-> TRUE, pv |-> res.propvals, rem |-> << >>, add |-> << >>]
        a1 == IF IsSome(c.remove)
              THEN RemoveLoop(Unwrap(c.remove), a0, res.subject, res.propvals,
                              update_index)
              ELSE a0
        a2 == IF IsSome(c.set)
              THEN SetLoop(KeysInOrder(Unwrap(c.set), ord), Unwrap(c.set), a1,
                           res.subject, res.propvals, update_index)
              ELSE a1
        a3 == IF IsSome(c.push)
              THEN PushLoop(KeysInOrder(Unwrap(c.push), ord), Unwrap(c.push), a2,
                            res.subject, update_index)
              ELSE a2
    IN IF a3.ok THEN DestroyAtoms(c, a3, res.subject) ELSE a3

\* apply_changes with its three loops (lines 293-311, 312-334, 335-361) run
\* in the order `phases`, and the entries of `remove` in the order rem_ord.
RECURSIVE ApplyPhases(_, _, _, _, _, _, _)
ApplyPhases(phases, c, acc, res, update_index, ord, rem_ord) ==
    IF phases = << >> THEN acc
    ELSE LET phase == Head(phases)
             next ==
                IF phase = "remove" /\ IsSome(c.remove)
                THEN RemoveLoop(SelectSeq(rem_ord,
                                    LAMBDA k : \E i \in 1..Len(Unwrap(c.remove)) :
                                                  Unwrap(c.remove)[i] = k),
                                acc, res.subject, res.propvals, update_index)
                ELSE IF phase = "set" /\ IsSome(c.set) /\ acc.ok
                THEN SetLoop(KeysInOrder(Unwrap(c.set), ord), Unwrap(c.set), acc,
                             res.subject, res.propvals, update_index)
                ELSE IF phase = "push" /\ IsSome(c.push) /\ acc.ok
                THEN PushLoop(KeysInOrder(Unwrap(c.push), ord), Unwrap(c.push), acc,
                              res.subject, update_index)
                ELSE acc
         IN ApplyPhases(Tail(phases), c, next, res, update_index, ord, rem_ord)

ApplyChangesInOrder(c, res, update_index, ord, phases) ==
    LET a0 == [ok |-> TRUE, pv |-> res.propvals, rem |-> << >>, add |-> << >>]
        a3 == ApplyPhases(phases, c, a0, res, update_index, ord, ord)
    IN IF a3.ok THEN DestroyAtoms(c, a3, res.subject) ELSE a3

\* The index calls apply_changes makes at its end, in order.
IndexCalls(changes, update_index) ==
    IF update_index
    THEN [i \in 1..Len(changes.rem) |-> <<"remove", changes.rem[i]>>]
         \o [i \in 1..Len(changes.add) |-> <<"add", changes.add[i]>>]
    ELSE << >>

-----------------------------------------------------------------------------
(* Commit::apply_opts as a machine.  A frame is one call: its inputs, its  *)
(* locals and the place it has reached.  Each step runs the handler up to  *)
(* and including its next call into the store, so that concurrent calls    *)
(* interleave at the store boundary; run to completion, the steps are the  *)
(* whole handler.                                                          *)

CommitOpts(schema, signature, timestamp, rights, prev, index_it, agent, parent) ==
    [validate_schema |-> schema, validate_signature |-> signature,
     validate_timestamp |-> timestamp, validate_rights |-> rights,
     validate_previous_commit |-> prev,
     update_index |-> index_it, validate_for_agent |-> agent,
     validate_subject_url_parent |-> parent]

\* The frame at entry: c the commit, now the clock, db whether the build has
\* the `db` feature, ord the iteration order of the commit's maps.
Frame(c, opts, now, db, ord) ==
    [pc |-> "start", c |-> c, opts |-> opts, now |-> now, db |-> db, ord |-> ord,
     commit_resource |-> NoResource, is_new |-> FALSE,
     resource_old |-> NoResource, resource_new |-> NoResource,
     queue |-> << >>, index_calls |-> << >>, result |-> "", accessed |-> FALSE,
     handled |-> 0, hook_ok |-> TRUE,
     response_new |-> None, response_old |-> None]

NoFrame == Frame(Commit(Str(<< >>), 0, Str(<< >>), None, None, None, None, None, None),
                 CommitOpts(FALSE, FALSE, FALSE, FALSE, FALSE, FALSE, None, FALSE),
                 0, FALSE, << >>)

Out(f, st, idx) == [f |-> f, st |-> st, idx |-> idx]

Fail(f, error) == [f EXCEPT !.pc = "done", !.result = error]

\* lines 93-127: subject parse, signature, timestamp, into_resource
StepStart(f, st, idx) ==
    IF ~UrlParseOk(f.c.subject) THEN Out(Fail(f, "not_url"), st, idx)
    ELSE IF HasQuery(f.c.subject) THEN Out(Fail(f, "query"), st, idx)
    ELSE LET g == [f EXCEPT !.accessed = TRUE]
         IN IF f.opts.validate_signature /\ SignatureCheck(f.c, st) # "ok"
            THEN Out(Fail(IF IsSome(f.c.signature) THEN g ELSE f,
                          SignatureCheck(f.c, st)), st, idx)
            ELSE IF /\ f.opts.validate_timestamp
                    /\ ~CheckTimestamp(f.c.created_at, f.now)
            THEN Out(Fail(IF f.opts.validate_signature THEN g ELSE f, "timestamp"),
                     st, idx)
            ELSE IF ~IntoResourceOk(f.c)
            THEN Out(Fail(IF f.opts.validate_signature THEN g ELSE f,
                          "into_resource"), st, idx)
            ELSE Out([g EXCEPT !.pc = "load",
                               !.commit_resource = IntoResource(f.c, f.now)],
                     st, idx)

\* A faulty variant of PreviousCommitCheck: the previous-commit is required
\* but never compared.
PreviousCommitCheckPresenceOnly(c, opts, is_new, resource_old) ==
    IF ~is_new /\ opts.validate_previous_commit
          /\ Has(resource_old.propvals, "lastCommit")
          /\ ~IsSome(c.previous_commit)
    THEN "previous_commit_missing"
    ELSE "ok"

\* lines 138-159: "ok" or the previous-commit error
PreviousCommitCheck(c, opts, is_new, resource_old) ==
    IF ~is_new /\ opts.validate_previous_commit
    THEN IF Has(resource_old.propvals, "lastCommit")
         THEN IF IsSome(c.previous_commit)
              THEN IF ValueToString(resource_old.propvals["lastCommit"])
                        # Unwrap(c.previous_commit)
                   THEN "previous_commit_mismatch"
                   ELSE "ok"
              ELSE "previous_commit_missing"
         ELSE "ok"
    ELSE "ok"

\* A faulty variant of ParentCheck: the subject is never compared with the
\* parent.
ParentCheckSkipped(c, opts, is_new, new_pv) == TRUE

\* lines 166-178
ParentCheck(c, opts, is_new, new_pv) ==
    IF is_new /\ opts.validate_subject_url_parent
    THEN IF Has(new_pv, "parent")
         THEN StartsWith(c.subject, ValueToString(new_pv["parent"]))
         ELSE TRUE
    ELSE TRUE

\* lines 128-178: load the target, previous-commit check, apply the changes
\* without the index, parent check
StepLoad(f, st, idx) ==
    LET is_new == ~Stored(st, f.c.subject)
        resource_old == IF is_new THEN Resource(f.c.subject, EmptyPropVals)
                        ELSE GetResource(st, f.c.subject)
        prev == PreviousCommitCheck(f.c, f.opts, is_new, resource_old)
        changes == ApplyChanges(f.c, resource_old, FALSE, f.ord)
        g == [f EXCEPT !.is_new = is_new, !.resource_old = resource_old]
    IN IF prev # "ok" THEN Out(Fail(g, prev), st, idx)
       ELSE IF ~changes.ok THEN Out(Fail(g, "apply_changes"), st, idx)
       ELSE IF ~ParentCheck(f.c, f.opts, is_new, changes.pv)
       THEN Out(Fail(g, "parent_prefix"), st, idx)
       ELSE Out([g EXCEPT !.pc = "rights",
                          !.resource_new = Resource(f.c.subject, changes.pv)],
                st, idx)

\* lines 185-195: the old resource gets the default parent for the check
WithDefaultParent(resource_old) ==
    IF Has(resource_old.propvals, "parent") \/ ~IsSome(SelfUrl)
    THEN resource_old
    ELSE Resource(resource_old.subject,
                  SetUnsafe(resource_old.propvals, "parent", VUrl(Unwrap(SelfUrl))))

\* A faulty variant of RightsCheckedOld: the result of the commit.
RightsCheckedNew(f) == f.resource_new

\* line 197: hierarchy::check_write is called on the old resource.
RightsCheckedOld(f) == WithDefaultParent(f.resource_old)

\* lines 180-199: "ok" or the error
RightsCheck(f, st) ==
    LET validate_for == IF IsSome(f.opts.validate_for_agent)
                        THEN Unwrap(f.opts.validate_for_agent)
                        ELSE f.c.signer
    IN IF ~f.opts.validate_rights THEN "ok"
       ELSE IF f.is_new
       THEN IF CheckAppend(st, f.resource_new, validate_for)
            THEN "ok" ELSE "no_append_right"
       ELSE IF ~Has(f.resource_old.propvals, "parent") /\ ~IsSome(SelfUrl)
       THEN "no_self_url"
       ELSE IF CheckWrite(st, RightsCheckedOld(f), validate_for)
       THEN "ok" ELSE "no_write_right"

\* A faulty variant of StampLastCommit: the new resource is saved without
\* the lastCommit stamp.
StampNothing(resource_new, commit_resource) == resource_new

\* lines 205-210: the lastCommit stamped on the new resource
StampLastCommit(resource_new, commit_resource) ==
    Resource(resource_new.subject,
             SetUnsafe(resource_new.propvals, "lastCommit",
                       VUrl(commit_resource.subject)))

\* A faulty variant of SchemaCheck: the required properties are never
\* looked at.
SchemaCheckSkipped(opts, resource_new) == TRUE

\* lines 200-203: resource_new.check_required_props, if validate_schema
SchemaCheck(opts, resource_new) ==
    opts.validate_schema => CheckRequiredProps(resource_new.propvals)

\* lines 180-244: rights, schema, stamp, classes, pre-hooks, and the local
\* part of the second apply_changes (the index calls it queues)
StepRights(f, st, idx) ==
    LET rights == RightsCheck(f, st)
        old == IF f.opts.validate_rights /\ ~f.is_new
               THEN WithDefaultParent(f.resource_old) ELSE f.resource_old
        new == StampLastCommit(f.resource_new, f.commit_resource)
        g == [f EXCEPT !.resource_old = old]
        changes == ApplyChanges(f.c, old, f.opts.update_index, f.ord)
    IN IF rights # "ok" THEN Out(Fail(f, rights), st, idx)
       ELSE IF ~SchemaCheck(f.opts, f.resource_new)
       THEN Out(Fail(g, "schema"), st, idx)
       ELSE IF ~GetClassesOk(new.propvals)
       THEN Out(Fail(g, "classes"), st, idx)
       ELSE IF f.db /\ HasClass(new.propvals, ClassUrl("Commit"))
       THEN Out(Fail(g, "commits_not_editable"), st, idx)
       ELSE IF IsSome(f.c.destroy) /\ Unwrap(f.c.destroy)
       THEN Out([g EXCEPT !.pc = "remove", !.resource_new = new], st, idx)
       ELSE IF ~changes.ok THEN Out(Fail(g, "apply_changes"), st, idx)
       ELSE Out([g EXCEPT !.pc = IF IndexCalls(changes, f.opts.update_index) = << >>
                                 THEN "add_commit" ELSE "index",
                          !.resource_new = new,
                          !.queue = IndexCalls(changes, f.opts.update_index)],
                st, idx)

\* A faulty variant of StepRemove: the error of remove_resource is dropped.
StepRemoveLenient(f, st, idx) ==
    Out([f EXCEPT !.pc = "add_commit_destroy"],
        RemoveResource(st, f.c.subject).st, idx)

\* line 232: store.remove_resource(&self.subject)
StepRemove(f, st, idx) ==
    LET r == RemoveResource(st, f.c.subject)
    IN IF r.ok THEN Out([f EXCEPT !.pc = "add_commit_destroy"], r.st, idx)
       ELSE Out(Fail(f, "remove_absent"), st, idx)

\* lines 233-239: persist the commit and return, resource_new = None
StepAddCommitDestroy(f, st, idx) ==
    LET r == AddResourceOpts(st, idx, f.commit_resource, FALSE,
                             f.opts.update_index, FALSE)
    IN IF r.ok
       THEN Out([f EXCEPT !.pc = "done", !.result = "ok",
                          !.response_new = None,
                          !.response_old = Some(f.resource_old)],
                r.st, r.idx)
       ELSE Out(Fail(f, "commit_exists"), st, idx)

\* lines 371-382: one remove_atom_from_index / add_atom_to_index call
StepIndex(f, st, idx) ==
    LET call == Head(f.queue)
        rest == Tail(f.queue)
    IN Out([f EXCEPT !.queue = rest,
                     !.index_calls = Append(@, call),
                     !.pc = IF rest = << >> THEN "add_commit" ELSE "index"],
           st,
           IF call[1] = "remove"
           THEN RemoveAtomFromIndex(idx, call[2])
           ELSE AddAtomToIndex(idx, call[2]))

\* line 247: save the Commit, not overwriting
StepAddCommit(f, st, idx) ==
    LET r == AddResourceOpts(st, idx, f.commit_resource, FALSE,
                             f.opts.update_index, FALSE)
    IN IF r.ok THEN Out([f EXCEPT !.pc = "add_resource"], r.st, r.idx)
       ELSE Out(Fail(f, "commit_exists"), st, idx)

\* A faulty variant of StepAddResource: the call goes on to the notification
\* without the resource having been saved.
StepAddResourceSkipped(f, st, idx) == Out([f EXCEPT !.pc = "notify"], st, idx)

\* line 249: save the resource, skipping the index
StepAddResource(f, st, idx) ==
    LET r == AddResourceOpts(st, idx, f.resource_new, FALSE, FALSE, TRUE)
    IN Out([f EXCEPT !.pc = "notify"], r.st, r.idx)

\* lines 263-273: the post-hook of the `db` feature runs for a resource of
\* class Message; its error, if any, is returned by `?`.  Whether the
\* plugin fails (hook_ok) is up to the plugin.
PostHooks(f) ==
    IF f.db /\ HasClass(f.resource_new.propvals, ClassUrl("Message")) /\ ~f.hook_ok
    THEN "post_hook" ELSE "ok"

\* lines 251-275: the response, store.handle_commit, post-hooks, return
StepNotify(f, st, idx) ==
    Out([f EXCEPT !.pc = "done", !.result = PostHooks(f), !.handled = @ + 1,
                  !.response_new = Some(f.resource_new),
                  !.response_old = Some(f.resource_old)],
        st, idx)

Step(f, st, idx) ==
    CASE f.pc = "start" -> StepStart(f, st, idx)
      [] f.pc = "load" -> StepLoad(f, st, idx)
      [] f.pc = "rights" -> StepRights(f, st, idx)
      [] f.pc = "remove" -> StepRemove(f, st, idx)
      [] f.pc = "add_commit_destroy" -> StepAddCommitDestroy(f, st, idx)
      [] f.pc = "index" -> StepIndex(f, st, idx)
      [] f.pc = "add_commit" -> StepAddCommit(f, st, idx)
      [] f.pc = "add_resource" -> StepAddResource(f, st, idx)
      [] f.pc = "notify" -> StepNotify(f, st, idx)
      [] OTHER -> Out(f, st, idx)

\* Commit::apply_opts, start to return
RECURSIVE Run(_)
Run(o) == IF o.f.pc = "done" THEN o ELSE Run(Step(o.f, o.st, o.idx))

ApplyOpts(c, opts, now, db, ord, st, idx) ==
    Run(Out(Frame(c, opts, now, db, ord), st, idx))

\* A faulty variant of UnsafeOpts: the index is updated.
UnsafeOptsIndexing ==
    CommitOpts(FALSE, FALSE, FALSE, FALSE, FALSE, TRUE, None, FALSE)

\* Commit::apply_unsafe
UnsafeOpts == CommitOpts(FALSE, FALSE, FALSE, FALSE, FALSE, FALSE, None, FALSE)

-----------------------------------------------------------------------------
(* Storelike::is_external_subject.  Here a URL is read as the sequence of  *)
(* the pieces of its string: the scheme, the labels of the host with the   *)
(* dots between them, and the pieces of the path.                          *)

HostLabels == {"h", "atomicdata", "dev", "sub", "example", "com", "org", "localhost"}

\* The pieces of one chunk of a URL.
UrlTokens(chunk) ==
    CASE chunk = "https://h" -> <<"https://", "h">>
      [] chunk = "https://atomicdata.dev" -> <<"https://", "atomicdata", ".", "dev">>
      [] OTHER -> <<chunk>>

RECURSIVE Flatten(_)
Flatten(seqs) == IF seqs = << >> THEN << >> ELSE Head(seqs) \o Flatten(Tail(seqs))

\* The string of a URL, piece by piece.
AsStr(u) == Flatten([i \in 1..Len(u.path) |-> UrlTokens(u.path[i])])

\* str::starts_with on the strings
StrStartsWith(s, p) == Len(p) <= Len(s) /\ SubSeq(s, 1, Len(p)) = p

\* url::Url::parse(..).host(): the labels of the host, or none if the string
\* is no absolute URL.
HostOf(u) ==
    LET t == AsStr(u)
    IN IF Len(t) > 1 /\ t[1] = "https://"
       THEN Some(SelectSeq(t, LAMBDA x : x \in HostLabels))
       ELSE None

\* store::LOCAL_STORE_URL_STR
LocalStoreUrl == Str(<<"local">>)

\* lines 248-252: subject_host_parts.last(), as a host
LastLabel(labels) == <<labels[Len(labels)]>>

\* Storelike::is_external_subject: "true", "false" or "error"
IsExternalSubject(self_url, subject) ==
    IF ~IsSome(self_url) THEN "true"
    ELSE IF Unwrap(self_url) = LocalStoreUrl THEN "true"
    ELSE IF StrStartsWith(AsStr(subject), AsStr(Unwrap(self_url))) THEN "false"
    ELSE IF ~IsSome(HostOf(subject)) \/ ~IsSome(HostOf(Unwrap(self_url)))
    THEN "error"
    ELSE IF Unwrap(HostOf(subject)) = << >> THEN "false"
    ELSE IF LastLabel(Unwrap(HostOf(subject))) = Unwrap(HostOf(Unwrap(self_url)))
    THEN "false"
    ELSE "true"

-----------------------------------------------------------------------------
(* Storelike::get_path.  A path is its first item and the items after it,  *)
(* as atomic_path.split(' ') gives them; for_agent is None.                *)

\* item.parse::<u32>(): the items that are decimal numbers, and their values.
IsIndex(item) == item \in {"0", "1", "2"}
ParseU32(item) == CASE item = "0" -> 0 [] item = "1" -> 1 [] OTHER -> 2

NoAtom == Atom(Str(<< >>), "", VStr(""))

\* What a call can end in: Ok(PathReturn::Subject), Ok(PathReturn::Atom),
\* Err, or a panic.
PathSubject(subject) == [kind |-> "Subject", subject |-> subject, atom |-> NoAtom, error |-> ""]
PathAtom(atom) == [kind |-> "Atom", subject |-> atom.s, atom |-> atom, error |-> ""]
PathError(error) == [kind |-> "Error", subject |-> Str(<< >>), atom |-> NoAtom, error |-> error]
PathPanic == [kind |-> "Panic", subject |-> Str(<< >>), atom |-> NoAtom, error |-> ""]

\* Mapping::try_mapping_or_url
TryMappingOrUrl(mapping, item) ==
    IF UrlParseOk(item) THEN Some(item)
    ELSE IF item \in DOMAIN mapping THEN Some(mapping[item])
    ELSE None

\* The walk of hierarchy::check_read: a read or a write right on the
\* resource or on one of its parents.
RECURSIVE ReadRights(_, _, _, _)
ReadRights(st, pv, agent, hops) ==
    IF \/ InArray(pv, "read", agent) \/ InArray(pv, "read", PublicAgent)
       \/ InArray(pv, "write", agent) \/ InArray(pv, "write", PublicAgent)
    THEN TRUE
    ELSE IF /\ Has(pv, "parent")
            /\ hops > 0
            /\ Stored(st, ValueToString(pv["parent"]))
         THEN ReadRights(st, st[ValueToString(pv["parent"])], agent, hops - 1)
         ELSE FALSE

\* hierarchy::check_read(store, resource, agent)
CheckRead(st, res, agent) ==
    ReadRights(st, res.propvals, agent, Cardinality(DOMAIN st))

\* Storelike::get_resource_extended(subject, false, for_agent): "ok" or the
\* error
GetResourceExtended(st, subject, for_agent) ==
    IF ~Stored(st, subject) THEN "not_found"
    ELSE IF IsSome(for_agent)
            /\ ~CheckRead(st, GetResource(st, subject), Unwrap(for_agent))
    THEN "unauthorized"
    ELSE "ok"

\* lines 304-360: the loop over the items after the first; the set of the
\* outcomes.  `vector.len() - 1` in the argument of ok_or (line 325) is
\* computed whether or not the index is in range: on an empty vector it
\* overflows, which panics in a build with overflow checks and wraps in one
\* without.
RECURSIVE PathLoopFor(_, _, _, _, _)
PathLoopFor(items, subject, current, for_agent, st) ==
    IF items = << >> THEN {current}
    ELSE LET item == Head(items)
         IN IF item = "" THEN PathLoopFor(Tail(items), subject, current, for_agent, st)
            ELSE IF IsIndex(item)
            THEN IF current.kind = "Subject"
                 THEN {PathError("index_on_resource")}
                 ELSE IF current.atom.v[1] # "arr"
                 THEN {PathError("not_array")}
                 ELSE LET vector == current.atom.v[2]
                          i == ParseU32(item)
                      IN IF Len(vector) = 0
                         THEN {PathPanic, PathError("too_high_index")}
                         ELSE IF i >= Len(vector)
                         THEN {PathError("too_high_index")}
                         ELSE IF GetResourceExtended(st, vector[i + 1], for_agent) # "ok"
                         THEN {PathError(GetResourceExtended(st, vector[i + 1], for_agent))}
                         ELSE PathLoopFor(Tail(items), vector[i + 1],
                                          PathSubject(vector[i + 1]), for_agent, st)
            ELSE IF current.kind = "Atom"
            THEN {PathError("no_more_linked_resources")}
            ELSE IF ~Has(st[subject], item)
            THEN {PathError("unknown_shortname")}
            ELSE PathLoopFor(Tail(items), subject,
                             PathAtom(Atom(subject, item, st[subject][item])),
                             for_agent, st)

\* The loop of a call without for_agent
PathLoop(items, subject, current, st) == PathLoopFor(items, subject, current, None, st)

\* A faulty variant of GetPathFor: the resources reached through an index
\* are resolved without for_agent.
GetPathForStartOnly(first, rest, mapping, for_agent, st) ==
    LET id_url == IF IsSome(mapping)
                  THEN TryMappingOrUrl(Unwrap(mapping), first)
                  ELSE Some(first)
    IN IF ~IsSome(id_url) THEN {PathError("no_url_found")}
       ELSE IF rest = << >> THEN {PathSubject(Unwrap(id_url))}
       ELSE IF GetResourceExtended(st, Unwrap(id_url), for_agent) # "ok"
       THEN {PathError(GetResourceExtended(st, Unwrap(id_url), for_agent))}
       ELSE PathLoopFor(rest, Unwrap(id_url), PathSubject(Unwrap(id_url)), None, st)

\* Storelike::get_path(atomic_path, mapping, for_agent): the set of the
\* outcomes
GetPathFor(first, rest, mapping, for_agent, st) ==
    LET id_url == IF IsSome(mapping)
                  THEN TryMappingOrUrl(Unwrap(mapping), first)
                  ELSE Some(first)
    IN IF ~IsSome(id_url) THEN {PathError("no_url_found")}
       ELSE IF rest = << >> THEN {PathSubject(Unwrap(id_url))}
       ELSE IF GetResourceExtended(st, Unwrap(id_url), for_agent) # "ok"
       THEN {PathError(GetResourceExtended(st, Unwrap(id_url), for_agent))}
       ELSE PathLoopFor(rest, Unwrap(id_url), PathSubject(Unwrap(id_url)),
                        for_agent, st)

\* Storelike::get_path(atomic_path, mapping, None)
GetPath(first, rest, mapping, st) == GetPathFor(first, rest, mapping, None, st)

-----------------------------------------------------------------------------
(* handlers::commit::post_commit, from the parsed commit on.               *)

\* lines 19-28: the options of the server.  The literal names no
\* validate_subject_url_parent; either value is taken.
PostOpts(c, parent) ==
    CommitOpts(TRUE, TRUE, TRUE, TRUE, FALSE, TRUE, Some(c.signer), parent)

\* A faulty variant of PostCommit: the commit is applied whatever its
\* subject.
PostCommitUnchecked(f, st, idx) == Run(Out(f, st, idx))

\* lines 16-29: refuse an external subject, else apply_opts
PostCommit(f, st, idx) ==
    LET external == IsExternalSubject(SelfUrl, f.c.subject)
    IN IF external = "error" THEN Out(Fail(f, "external_error"), st, idx)
       ELSE IF external = "true" THEN Out(Fail(f, "external"), st, idx)
       ELSE Run(Out(f, st, idx))

-----------------------------------------------------------------------------
(* The store at start: the drive at the server URL, writable by agent A,   *)
(* and the two agents; the index matches it.                               *)

DriveProps ==
    [isA |-> VArr(<<ClassUrl("Drive")>>), write |-> VArr(<<AgentA.subject>>)]

AgentProps(agent) == [publicKey |-> VStr(agent.public_key)]

BaseStore ==
    (ServerUrl :> DriveProps)
    @@ (AgentA.subject :> AgentProps(AgentA))
    @@ (AgentB.subject :> AgentProps(AgentB))

AllAtoms(st) == UNION {ToAtoms(GetResource(st, s)) : s \in DOMAIN st}

\* Storelike::build_index
BuildIndex(st) == IndexKeysOf(AllAtoms(st))

CommitUrls(st) == {s \in DOMAIN st : HasClass(st[s], ClassUrl("Commit"))}

NCommits(st) == Cardinality(CommitUrls(st))

-----------------------------------------------------------------------------
(* The commits callers make.  A payload is the set / remove / push /       *)
(* destroy part of a CommitBuilder.                                        *)

Payload(set, remove, push, destroy) ==
    [set |-> set, remove |-> remove, push |-> push, destroy |-> destroy]

SetOne(prop, val) == Payload((prop :> val), << >>, << >>, FALSE)
RemoveOne(prop) == Payload(<< >>, <<prop>>, << >>, FALSE)
PushOne(prop, val) == Payload(<< >>, << >>, (prop :> val), FALSE)
Destroy == Payload(<< >>, << >>, << >>, TRUE)

OtherKey(priv) == IF priv = "skA" THEN "skB" ELSE "skA"

\* The previous_commit values a caller can hold: none, or the URL of a
\* commit that was applied at some time.
PrevChoices(st) == {None} \cup {Some(u) : u \in CommitUrls(st)}

\* A commit built by a CommitBuilder and signed by sign_at (kind "signed"),
\* the same left unsigned, or with the signature of another key.
MakeCommit(subject, payload, agent, prev, kind) ==
    LET r == SignAt(Builder(subject, payload.set, payload.push, payload.remove,
                            payload.destroy, prev), agent, 0)
    IN IF kind = "signed" THEN r.commit
       ELSE IF kind = "unsigned" THEN [r.commit EXCEPT !.signature = None]
       ELSE [r.commit EXCEPT !.signature =
                Some(SignMessage(SerializeDeterministically(r.commit),
                                 OtherKey(Unwrap(agent.private_key)),
                                 agent.public_key))]

-----------------------------------------------------------------------------
(* Sequential callers: one apply_opts call at a time. *)

Init ==
    /\ resources = BaseStore
    /\ index = BuildIndex(BaseStore)
    /\ pc = "idle"
    /\ req = NoFrame
    /\ resp = NoFrame
    /\ resources0 = BaseStore
    /\ index0 = BuildIndex(BaseStore)
    /\ procs = << >>
    /\ canon = None

\* A caller calls commit.apply_opts(store, opts).
Call(f) ==
    /\ pc = "idle"
    /\ NCommits(resources) < MaxCommits
    /\ pc' = "called"
    /\ req' = f
    /\ resources0' = resources
    /\ index0' = index
    /\ UNCHANGED <<resources, index, resp, procs, canon>>

\* Commit::apply_opts runs (the whole handler).
Apply ==
    /\ pc = "called"
    /\ \E o \in {Run(Out(req, resources, index))} :
          /\ resources' = o.st
          /\ index' = o.idx
          /\ resp' = o.f
    /\ pc' = "returned"
    /\ UNCHANGED <<req, resources0, index0, procs, canon>>

\* The caller takes the result.
Return ==
    /\ pc = "returned"
    /\ pc' = "idle"
    /\ req' = NoFrame
    /\ resp' = NoFrame
    /\ resources0' = resources
    /\ index0' = index
    /\ UNCHANGED <<resources, index, procs, canon>>

\* Spec: commits by agent A on one subject, signed, with every
\* previous_commit a caller can hold, and subjects that are no commit
\* targets; the index is updated by every call.
MainPayloads ==
    {SetOne("description", VStr("hi")), SetOne("description", VStr("yo")),
     RemoveOne("description"), PushOne("write", VArr(<<AgentB.subject>>)),
     Destroy}

MainOpts ==
    {CommitOpts(TRUE, TRUE, TRUE, FALSE, prev, TRUE, None, TRUE) :
        prev \in BOOLEAN}

MainCommits(st) ==
    {MakeCommit(SubjA, p, AgentA, prev, "signed") :
        p \in MainPayloads, prev \in PrevChoices(st)}
    \cup {MakeCommit(s, SetOne("description", VStr("hi")), AgentA, None, "signed") :
             s \in {SubjNoUrl, SubjQuery}}

MainInputs ==
    {Frame(c, o, 0, TRUE, PropOrder) : c \in MainCommits(resources), o \in MainOpts}

Next ==
    \/ \E f \in MainInputs : Call(f)
    \/ Apply
    \/ Return

Spec == Init /\ [][Next]_vars

-----------------------------------------------------------------------------
(* Concurrent callers: two threads that each call apply_opts once on the   *)
(* same store, which hands out shared references and takes no lock across  *)
(* a call.  The steps of the two calls interleave at the store boundary.   *)

Threads == {1, 2}

Idle == [NoFrame EXCEPT !.pc = "idle"]

ParOpts(prev) == CommitOpts(TRUE, TRUE, TRUE, FALSE, prev, TRUE, None, TRUE)

\* The commit that created the subject the threads work on.
FirstCommit ==
    MakeCommit(SubjA, SetOne("description", VStr("hi")), AgentA, None, "signed")

FirstApplied ==
    ApplyOpts(FirstCommit, ParOpts(TRUE), 0, TRUE, PropOrder, BaseStore,
              BuildIndex(BaseStore))

ParPayloads ==
    {SetOne("description", VStr("yo")), PushOne("write", VArr(<<AgentB.subject>>)),
     Destroy}

ParInputs ==
    {Frame(MakeCommit(SubjA, p, AgentA, prev, "signed"), ParOpts(v), 0, TRUE, PropOrder) :
        p \in ParPayloads, prev \in PrevChoices(FirstApplied.st), v \in BOOLEAN}

InitPar ==
    /\ resources = FirstApplied.st
    /\ index = FirstApplied.idx
    /\ pc = "idle"
    /\ req = NoFrame
    /\ resp = NoFrame
    /\ resources0 = FirstApplied.st
    /\ index0 = FirstApplied.idx
    /\ procs = [t \in Threads |-> Idle]
    /\ canon = None

\* Thread t calls commit.apply_opts(store, opts).
ParCall(t, f) ==
    /\ procs[t].pc = "idle"
    /\ procs' = [procs EXCEPT ![t] = f]
    /\ UNCHANGED <<resources, index, pc, req, resp, resources0, index0, canon>>

\* Thread t runs its call up to and including its next call into the store.
ParStep(t) ==
    /\ procs[t].pc \notin {"idle", "done"}
    /\ \E o \in {Step(procs[t], resources, index)} :
          /\ procs' = [procs EXCEPT ![t] = o.f]
          /\ resources' = o.st
          /\ index' = o.idx
    /\ UNCHANGED <<pc, req, resp, resources0, index0, canon>>

NextPar ==
    \/ \E t \in Threads, f \in ParInputs : ParCall(t, f)
    \/ \E t \in Threads : ParStep(t)

SpecPar == InitPar /\ [][NextPar]_vars

-----------------------------------------------------------------------------
(* Callers whose rights are checked: agents A and B commit on one subject, *)
(* for themselves or (as the server does) for a named agent.  The store    *)
(* has a resource of agent B under the drive.                              *)

AuthStore ==
    BaseStore
    @@ (SubjC :> [parent |-> VUrl(ServerUrl), write |-> VArr(<<AgentB.subject>>)])

AuthPayloads ==
    {SetOne("parent", VUrl(ServerUrl)), SetOne("parent", VUrl(SubjC)),
     SetOne("write", VArr(<<AgentB.subject>>)), Destroy}

AuthOpts ==
    {CommitOpts(TRUE, TRUE, TRUE, TRUE, FALSE, TRUE, for_agent, FALSE) :
        for_agent \in {None, Some(AgentB.subject)}}

AuthInputs ==
    {Frame(MakeCommit(SubjA, p, agent, None, "signed"), o, 0, TRUE, PropOrder) :
        p \in AuthPayloads, agent \in {AgentA, AgentB}, o \in AuthOpts}

InitAuth ==
    /\ resources = AuthStore
    /\ index = BuildIndex(AuthStore)
    /\ pc = "idle"
    /\ req = NoFrame
    /\ resp = NoFrame
    /\ resources0 = AuthStore
    /\ index0 = BuildIndex(AuthStore)
    /\ procs = << >>
    /\ canon = None

NextAuth ==
    \/ \E f \in AuthInputs : Call(f)
    \/ Apply
    \/ Return

SpecAuth == InitAuth /\ [][NextAuth]_vars

-----------------------------------------------------------------------------
(* Callers that create resources below a parent: commits on https://h/a    *)
(* and https://h/a/b that declare a parent, with and without the check of  *)
(* the subject against the parent.                                         *)

ParentPayloads ==
    {SetOne("parent", VUrl(SubjA)), SetOne("parent", VUrl(SubjC)),
     SetOne("parent", VUrl(ServerUrl)), SetOne("description", VStr("hi"))}

ParentOpts ==
    {CommitOpts(TRUE, TRUE, TRUE, FALSE, FALSE, TRUE, None, check) :
        check \in BOOLEAN}

ParentInputs ==
    {Frame(MakeCommit(s, p, AgentA, None, "signed"), o, 0, TRUE, PropOrder) :
        s \in {SubjA, SubjAB}, p \in ParentPayloads, o \in ParentOpts}

NextParent ==
    \/ \E f \in ParentInputs : Call(f)
    \/ Apply
    \/ Return

SpecParent == Init /\ [][NextParent]_vars

-----------------------------------------------------------------------------
(* Callers with every combination of CommitOpts, on subjects that are no   *)
(* absolute URL or have a query, and on one that is valid.                 *)

AllOpts ==
    {CommitOpts(a, b, c, d, e, f, g, h) :
        a \in BOOLEAN, b \in BOOLEAN, c \in BOOLEAN, d \in BOOLEAN,
        e \in BOOLEAN, f \in BOOLEAN, g \in {None, Some(AgentB.subject)},
        h \in BOOLEAN}

InvalidSubjects == {SubjNoUrl, SubjQuery}

SubjectInputs ==
    {Frame(MakeCommit(s, SetOne("description", VStr("hi")), AgentA, None, "signed"),
           o, 0, TRUE, PropOrder) :
        s \in InvalidSubjects \cup {SubjA}, o \in AllOpts}

NextSubject ==
    \/ \E f \in SubjectInputs : Call(f)
    \/ Apply
    \/ Return

SpecSubject == Init /\ [][NextSubject]_vars

-----------------------------------------------------------------------------
(* Signing and verifying: one call per behaviour, for a commit built by a  *)
(* CommitBuilder and signed by sign_at, left unsigned, or signed with      *)
(* another key; the store holds the public keys of agents A and B.         *)

SignPayloads ==
    {SetOne("description", VStr("hi")),
     Payload([description |-> VStr("hi"), parent |-> VUrl(ServerUrl)], << >>, << >>, FALSE),
     Payload(("description" :> VStr("yo")), <<"parent">>, << >>, FALSE),
     RemoveOne("publicKey"), PushOne("write", VArr(<<AgentB.subject>>)),
     Payload(<< >>, << >>, << >>, FALSE), Destroy}

SignOpts ==
    {CommitOpts(TRUE, sig, TRUE, FALSE, FALSE, TRUE, None, TRUE) : sig \in BOOLEAN}

SignInputs ==
    {Frame(MakeCommit(s, p, agent, prev, kind), o, 0, TRUE, PropOrder) :
        s \in {SubjA, AgentB.subject}, p \in SignPayloads,
        agent \in {AgentA, AgentB}, prev \in {None, Some(SubjC)},
        kind \in {"signed", "unsigned", "forged"}, o \in SignOpts}

InitSign ==
    /\ resources = BaseStore
    /\ index = BuildIndex(BaseStore)
    /\ pc = "called"
    /\ req \in SignInputs
    /\ resp = NoFrame
    /\ resources0 = BaseStore
    /\ index0 = BuildIndex(BaseStore)
    /\ procs = << >>
    /\ canon = None

NextSign ==
    \/ Apply
    \/ Return

SpecSign == InitSign /\ [][NextSign]_vars

-----------------------------------------------------------------------------
(* Serializing: one call of serialize_deterministically_json_ad per        *)
(* behaviour, on a commit made by sign_at (signed or with the signature    *)
(* taken off) or built field by field, in a run with some iteration order  *)
(* of its HashMaps.                                                        *)

Reverse(seq) == [i \in 1..Len(seq) |-> seq[Len(seq) + 1 - i]]

Rotate(seq, n) == SubSeq(seq, n + 1, Len(seq)) \o SubSeq(seq, 1, n)

\* The iteration orders of a HashMap over the property URLs of the model.
Orders ==
    {PropOrder, Reverse(PropOrder), Rotate(PropOrder, 2), Rotate(PropOrder, 6),
     Reverse(Rotate(PropOrder, 11))}

CanonPayloads ==
    SignPayloads
    \cup {Payload([description |-> VStr("hi"), parent |-> VUrl(ServerUrl),
                   write |-> VArr(<<AgentB.subject, AgentA.subject>>)],
                  <<"publicKey", "isA">>,
                  [write |-> VArr(<<AgentB.subject, AgentA.subject>>),
                   isA |-> VArr(<<ClassUrl("Doc")>>)],
                  FALSE),
          Payload(<< >>, <<"isA", "description">>, << >>, TRUE)}

\* Commits with fields left out, as a caller can build them.
BareCommits ==
    {Commit(SubjA, 0, AgentA.subject, set, None, destroy, None, None, None) :
        set \in {None, Some([parent |-> VUrl(SubjC), description |-> VStr("hi")])},
        destroy \in {None, Some(FALSE), Some(TRUE)}}

CanonCommits ==
    {MakeCommit(SubjA, p, agent, prev, kind) :
        p \in CanonPayloads, agent \in {AgentA, AgentB},
        prev \in {None, Some(SubjC)}, kind \in {"signed", "unsigned"}}
    \cup BareCommits

InitCanon ==
    /\ resources = BaseStore
    /\ index = BuildIndex(BaseStore)
    /\ pc = "idle"
    /\ req \in {Frame(c, UnsafeOpts, 0, TRUE, ord) : c \in CanonCommits, ord \in Orders}
    /\ resp = NoFrame
    /\ resources0 = BaseStore
    /\ index0 = BuildIndex(BaseStore)
    /\ procs = << >>
    /\ canon = None

\* commit.serialize_deterministically_json_ad(store)
Serialize ==
    /\ canon = None
    /\ IntoResourceOk(req.c)
    /\ canon' = Some(SerializeInOrder(req.c, req.ord))
    /\ UNCHANGED <<resources, index, pc, req, resp, resources0, index0, procs>>

NextCanon == Serialize

SpecCanon == InitCanon /\ [][NextCanon]_vars

-----------------------------------------------------------------------------
(* Callers that apply signed and unsigned commits on one subject, with the *)
(* signature checked or not; a commit may set and push the same property,  *)
(* or set lastCommit.                                                      *)

StorePayloads ==
    {SetOne("description", VStr("hi")),
     Payload([description |-> VStr("yo"), parent |-> VUrl(ServerUrl)], << >>, << >>, FALSE),
     Payload([write |-> VArr(<<AgentB.subject>>)], << >>,
             [write |-> VArr(<<AgentA.subject>>)], FALSE),
     SetOne("lastCommit", VUrl(SubjC)),
     Destroy}

StoreOpts ==
    {CommitOpts(TRUE, sig, TRUE, FALSE, FALSE, TRUE, None, TRUE) : sig \in BOOLEAN}

\* The clock of the calls.
StoreNow == 5

StoreInputs ==
    {Frame(MakeCommit(SubjA, p, AgentA, None, kind), o, StoreNow, TRUE, PropOrder) :
        p \in StorePayloads, kind \in {"signed", "unsigned"}, o \in StoreOpts}

NextStore ==
    \/ \E f \in StoreInputs : Call(f)
    \/ Apply
    \/ Return

SpecStore == Init /\ [][NextStore]_vars

-----------------------------------------------------------------------------
(* Callers that give one subject a class, with or without the property the *)
(* class requires, and take that property away again; the schema is        *)
(* validated by some calls and not by others.                              *)

SchemaPayloads ==
    {SetOne("description", VStr("hi")),
     SetOne("isA", VArr(<<ClassUrl("Doc")>>)),
     Payload([isA |-> VArr(<<ClassUrl("Doc")>>), description |-> VStr("yo")],
             << >>, << >>, FALSE),
     RemoveOne("description"),
     PushOne("isA", VArr(<<ClassUrl("Doc")>>)),
     Destroy}

SchemaOpts ==
    {CommitOpts(schema, TRUE, TRUE, FALSE, FALSE, TRUE, None, TRUE) :
        schema \in BOOLEAN}

SchemaInputs ==
    {Frame(MakeCommit(SubjA, p, AgentA, None, "signed"), o, 0, TRUE, PropOrder) :
        p \in SchemaPayloads, o \in SchemaOpts}

NextSchema ==
    \/ \E f \in SchemaInputs : Call(f)
    \/ Apply
    \/ Return

SpecSchema == Init /\ [][NextSchema]_vars

-----------------------------------------------------------------------------
(* Callers that create a resource by a commit and then aim commits at the  *)
(* stored commit resource itself; the pre-hooks of the `db` feature are on *)
(* and the validations are on, rights and previous-commit in some calls.   *)

\* The stored commits that were made on the ordinary subject.
CommitsOn(st, subject) ==
    {u \in CommitUrls(st) : st[u]["subject"] = VUrl(subject)}

OnSubjectPayloads ==
    {SetOne("description", VStr("hi")), SetOne("description", VStr("yo"))}

OnCommitPayloads ==
    {SetOne("description", VStr("hi")),
     RemoveOne("isA"),
     Destroy,
     Payload(<< >>, <<"isA">>, << >>, TRUE)}

ImmutableOpts ==
    {CommitOpts(TRUE, TRUE, TRUE, rights, prev, TRUE, None, TRUE) :
        rights \in BOOLEAN, prev \in BOOLEAN}

ImmutableCommits(st) ==
    {MakeCommit(SubjA, p, AgentA, None, "signed") : p \in OnSubjectPayloads}
    \cup {MakeCommit(u, p, AgentA, None, "signed") :
             u \in CommitsOn(st, SubjA), p \in OnCommitPayloads}

ImmutableInputs ==
    {Frame(c, o, 0, TRUE, PropOrder) :
        c \in ImmutableCommits(resources), o \in ImmutableOpts}

NextImmutable ==
    \/ \E f \in ImmutableInputs : Call(f)
    \/ Apply
    \/ Return

SpecImmutable == Init /\ [][NextImmutable]_vars

-----------------------------------------------------------------------------
(* Failing calls: one call per behaviour, of commits that each phase of    *)
(* apply_opts rejects (and of some it accepts), by agents A and B, signed, *)
(* unsigned or signed with another key, under every combination of the     *)
(* validations.  The target is absent, or was created by the first commit, *)
(* or was created, destroyed and created again.                            *)

DestroyCommit ==
    MakeCommit(SubjA, Destroy, AgentA,
               Some(FirstApplied.f.commit_resource.subject), "signed")

Destroyed ==
    ApplyOpts(DestroyCommit, ParOpts(TRUE), 0, TRUE, PropOrder,
              FirstApplied.st, FirstApplied.idx)

Recreated ==
    ApplyOpts(MakeCommit(SubjA, SetOne("description", VStr("yo")), AgentA,
                         None, "signed"),
              ParOpts(TRUE), 0, TRUE, PropOrder, Destroyed.st, Destroyed.idx)

ErrorPayloads ==
    {SetOne("description", VStr("hi")),
     SetOne("description", VInt(1)),
     SetOne("parent", VUrl(SubjC)),
     SetOne("isA", VArr(<<ClassUrl("Doc")>>)),
     SetOne("isA", VArr(<<ClassUrl("Commit")>>)),
     SetOne("isA", VArr(<<ClassUrl("Nope")>>)),
     Destroy}

ErrorOpts ==
    {o \in AllOpts : /\ o.update_index
                     /\ o.validate_for_agent = None
                     /\ o.validate_subject_url_parent}

\* The server's clock at the call: that of the signer, or far behind it.
ErrorNows == {0, 0 - 2 * ACCEPTABLE_TIME_DIFFERENCE}

ErrorCommits ==
    {MakeCommit(SubjA, p, agent, None, kind) :
        p \in ErrorPayloads, agent \in {AgentA, AgentB},
        kind \in {"signed", "unsigned", "other_key"}}
    \cup {MakeCommit(s, SetOne("description", VStr("hi")), AgentA, None, "signed") :
             s \in InvalidSubjects}
    \cup {FirstCommit, DestroyCommit}

ErrorInputs ==
    {Frame(c, o, now, TRUE, PropOrder) :
        c \in ErrorCommits, o \in ErrorOpts, now \in ErrorNows}

InitErrors ==
    /\ \E first \in {Out(NoFrame, BaseStore, BuildIndex(BaseStore)),
                      FirstApplied, Recreated} :
          /\ resources = first.st
          /\ index = first.idx
          /\ resources0 = first.st
          /\ index0 = first.idx
    /\ pc = "called"
    /\ req \in ErrorInputs
    /\ resp = NoFrame
    /\ procs = << >>
    /\ canon = None

NextErrors ==
    \/ Apply
    \/ Return

SpecErrors == InitErrors /\ [][NextErrors]_vars

-----------------------------------------------------------------------------
(* Callers that store chat messages and other resources, with the `db`     *)
(* hooks compiled in or not; the chat-room plugin's post-hook fails for    *)
(* some calls.                                                             *)

HookPayloads ==
    {SetOne("isA", VArr(<<ClassUrl("Message")>>)),
     Payload([isA |-> VArr(<<ClassUrl("Message")>>), description |-> VStr("hi")],
             << >>, << >>, FALSE),
     SetOne("description", VStr("yo")),
     RemoveOne("isA"),
     Destroy}

HookInputs ==
    {[Frame(MakeCommit(SubjA, p, AgentA, None, "signed"),
            CommitOpts(TRUE, TRUE, TRUE, FALSE, FALSE, TRUE, None, TRUE),
            0, db, PropOrder) EXCEPT !.hook_ok = ok] :
        p \in HookPayloads, db \in BOOLEAN, ok \in BOOLEAN}

NextHook ==
    \/ \E f \in HookInputs : Call(f)
    \/ Apply
    \/ Return

SpecHook == Init /\ [][NextHook]_vars

-----------------------------------------------------------------------------
(* Clocks: one call per behaviour, of a commit signed by agent A at a time *)
(* before, at or after the server's clock, around both ends of the window. *)

\* The server's clock at the call, in ms.
TimeNow == 50000

\* created_at minus the server's clock.
TimeOffsets == {-20000, -10001, -10000, 0, 9999, 10000, 10001, 20000}

TimeCommit(created_at) ==
    SignAt(Builder(SubjA, ("description" :> VStr("hi")), << >>, << >>, FALSE, None),
           AgentA, created_at).commit

TimeOpts ==
    {o \in AllOpts : /\ o.update_index
                     /\ o.validate_for_agent = None
                     /\ o.validate_subject_url_parent}

TimeInputs ==
    {Frame(TimeCommit(TimeNow + d), o, TimeNow, TRUE, PropOrder) :
        d \in TimeOffsets, o \in TimeOpts}

InitTime ==
    /\ \E first \in {Out(NoFrame, BaseStore, BuildIndex(BaseStore)), FirstApplied} :
          /\ resources = first.st
          /\ index = first.idx
          /\ resources0 = first.st
          /\ index0 = first.idx
    /\ pc = "called"
    /\ req \in TimeInputs
    /\ resp = NoFrame
    /\ procs = << >>
    /\ canon = None

NextTime ==
    \/ Apply
    \/ Return

SpecTime == InitTime /\ [][NextTime]_vars

-----------------------------------------------------------------------------
(* is_external_subject: one call per behaviour, on a store whose self URL  *)
(* is not set, is `local`, or is a server's, for subjects on the server's  *)
(* host, on a subdomain of it, and on other hosts.                         *)

\* https://<labels joined by dots><path>
HostUrl(labels, path) ==
    Str(<<"https://">>
        \o Flatten([i \in 1..Len(labels) |->
                       IF i = 1 THEN <<labels[i]>> ELSE <<".", labels[i]>>])
        \o path)

ExternalHosts ==
    {<<"example", "com">>, <<"sub", "example", "com">>,
     <<"sub", "sub", "example", "com">>, <<"example", "org">>,
     <<"localhost">>, <<"sub", "localhost">>, <<"com">>}

ExternalSelfUrls ==
    {None, Some(LocalStoreUrl)}
    \cup {Some(HostUrl(h, <<"/">>)) :
             h \in {<<"example", "com">>, <<"localhost">>, <<"example", "org">>}}

ExternalSubjects ==
    {HostUrl(h, p) : h \in ExternalHosts, p \in {<<"/">>, <<"/", "a">>}}
    \cup {SubjNoUrl, SubjA}

InitExternal ==
    /\ resources = BaseStore
    /\ index = BuildIndex(BaseStore)
    /\ resources0 = BaseStore
    /\ index0 = BuildIndex(BaseStore)
    /\ pc = "called"
    /\ req \in [self_url : ExternalSelfUrls, subject : ExternalSubjects]
    /\ resp = [result |-> ""]
    /\ procs = << >>
    /\ canon = None

\* A caller asks store.is_external_subject(subject).
CheckExternal ==
    /\ pc = "called"
    /\ resp' = [result |-> IsExternalSubject(req.self_url, req.subject)]
    /\ pc' = "returned"
    /\ UNCHANGED <<resources, index, req, resources0, index0, procs, canon>>

NextExternal == CheckExternal

SpecExternal == InitExternal /\ [][NextExternal]_vars

-----------------------------------------------------------------------------
(* The server: commits posted by agents A and B, signed or not, on a       *)
(* subject of this server, on one of another server, and on one that is no *)
(* URL.                                                                    *)

SubjElsewhere == Str(<<"https://atomicdata.dev", "/a">>)

PostPayloads ==
    {SetOne("description", VStr("hi")), SetOne("description", VStr("yo")),
     Payload([description |-> VStr("hi"), parent |-> VUrl(ServerUrl)],
             << >>, << >>, FALSE),
     Destroy}

PostInputs ==
    {Frame(c, PostOpts(c, parent), 0, TRUE, PropOrder) :
        c \in {MakeCommit(subject, p, agent, None, kind) :
                  subject \in {SubjA, SubjElsewhere, SubjNoUrl},
                  p \in PostPayloads, agent \in {AgentA, AgentB},
                  kind \in {"signed", "unsigned"}},
        parent \in BOOLEAN}

\* post_commit runs (the whole handler).
Post ==
    /\ pc = "called"
    /\ \E o \in {PostCommit(req, resources, index)} :
          /\ resources' = o.st
          /\ index' = o.idx
          /\ resp' = o.f
    /\ pc' = "returned"
    /\ UNCHANGED <<req, resources0, index0, procs, canon>>

NextPost ==
    \/ \E f \in PostInputs : Call(f)
    \/ Post
    \/ Return

SpecPost == Init /\ [][NextPost]_vars

-----------------------------------------------------------------------------
(* Paths: one get_path call per behaviour, on a store with a resource that *)
(* links to a stored and to an absent resource and has an empty array.     *)

MaxPathItems == 3

PathStore ==
    BaseStore
    @@ (SubjA :> [description |-> VStr("hi"),
                  write |-> VArr(<<AgentB.subject, SubjC>>),
                  isA |-> VArr(<< >>)])

PathMapping == (Str(<<"home">>) :> SubjA)

PathFirstItems == {ServerUrl, SubjC, Str(<<"home">>), Str(<<"nope">>)}

PathItems == {"", "0", "1", "2", "write", "isA", "description", "publicKey", "nope"}

PathRests == UNION {[1..n -> PathItems] : n \in 0..MaxPathItems}

InitPath ==
    /\ resources = PathStore
    /\ index = BuildIndex(PathStore)
    /\ resources0 = PathStore
    /\ index0 = BuildIndex(PathStore)
    /\ pc = "called"
    /\ req \in [first : PathFirstItems, rest : PathRests,
                 mapping : {None, Some(PathMapping)}]
    /\ resp = PathError("")
    /\ procs = << >>
    /\ canon = None

\* A caller calls store.get_path(atomic_path, mapping, None).
GetPathCall ==
    /\ pc = "called"
    /\ resp' \in GetPath(req.first, req.rest, req.mapping, resources)
    /\ pc' = "returned"
    /\ UNCHANGED <<resources, index, req, resources0, index0, procs, canon>>

NextPath == GetPathCall

SpecPath == InitPath /\ [][NextPath]_vars

-----------------------------------------------------------------------------
(* Callers that move resources in the hierarchy: commits of agent A on     *)
(* https://h/a and https://h/a/b that set `parent`, every validation but   *)
(* previous-commit on (rights in some calls), the subject of a new         *)
(* resource checked against its parent.                                    *)

ForestPayloads ==
    {SetOne("parent", VUrl(ServerUrl)), SetOne("parent", VUrl(SubjA)),
     SetOne("parent", VUrl(SubjAB)), SetOne("description", VStr("hi"))}

ForestOpts ==
    {CommitOpts(TRUE, TRUE, TRUE, rights, FALSE, TRUE, None, TRUE) :
        rights \in BOOLEAN}

ForestInputs ==
    {Frame(MakeCommit(s, p, AgentA, None, "signed"), o, 0, TRUE, PropOrder) :
        s \in {SubjA, SubjAB}, p \in ForestPayloads, o \in ForestOpts}

NextForest ==
    \/ \E f \in ForestInputs : Call(f)
    \/ Apply
    \/ Return

SpecForest == Init /\ [][NextForest]_vars

-----------------------------------------------------------------------------
(* Callers that set and push values of the right and of the wrong          *)
(* datatype, on a property that holds an array, one that holds a string,   *)
(* and one that is absent.                                                 *)

TypesPayloads ==
    {SetOne("description", VStr("hi")),
     SetOne("description", VInt(1)),
     SetOne("write", VArr(<<AgentA.subject>>)),
     PushOne("write", VArr(<<AgentB.subject>>)),
     PushOne("write", VStr("x")),
     PushOne("description", VArr(<<AgentB.subject>>)),
     RemoveOne("description")}

TypesOpts ==
    {CommitOpts(TRUE, TRUE, TRUE, rights, FALSE, TRUE, None, TRUE) :
        rights \in BOOLEAN}

TypesInputs ==
    {Frame(MakeCommit(SubjA, p, AgentA, None, "signed"), o, 0, TRUE, PropOrder) :
        p \in TypesPayloads, o \in TypesOpts}

NextTypes ==
    \/ \E f \in TypesInputs : Call(f)
    \/ Apply
    \/ Return

SpecTypes == Init /\ [][NextTypes]_vars

-----------------------------------------------------------------------------
(* Orders: one apply_changes per behaviour, with its loops and the entries *)
(* of its maps taken in some order, for commits whose set, remove and push *)
(* name disjoint properties and for one where they overlap.                *)

PhaseOrders ==
    {<<"remove", "set", "push">>, <<"remove", "push", "set">>,
     <<"set", "remove", "push">>, <<"set", "push", "remove">>,
     <<"push", "remove", "set">>, <<"push", "set", "remove">>}

OrderPayloads ==
    {Payload([description |-> VStr("yo"), parent |-> VUrl(ServerUrl)],
             <<"isA", "publicKey">>, [write |-> VArr(<<AgentB.subject>>)], FALSE),
     Payload([description |-> VStr("yo"), isA |-> VArr(<<ClassUrl("Doc")>>)],
             <<"parent">>,
             [write |-> VArr(<<AgentB.subject>>)], TRUE),
     Payload([description |-> VInt(1), parent |-> VUrl(ServerUrl)],
             <<"isA">>, [write |-> VStr("x")], FALSE),
     Payload([parent |-> VUrl(ServerUrl)], <<"isA">>,
             [description |-> VArr(<<AgentB.subject>>),
              write |-> VArr(<<AgentB.subject>>)], FALSE),
     Payload([write |-> VArr(<<AgentA.subject>>)], <<"write">>,
             [write |-> VArr(<<AgentB.subject>>)], FALSE)}

OrderResources ==
    {Resource(SubjA, EmptyPropVals),
     Resource(SubjA, [description |-> VStr("hi"), write |-> VArr(<<AgentA.subject>>),
                      isA |-> VArr(<<ClassUrl("Doc")>>), parent |-> VUrl(SubjC)]),
     Resource(SubjA, [description |-> VStr("hi"), publicKey |-> VStr("pkA")])}

InitOrder ==
    /\ resources = BaseStore
    /\ index = BuildIndex(BaseStore)
    /\ resources0 = BaseStore
    /\ index0 = BuildIndex(BaseStore)
    /\ pc = "called"
    /\ req \in [c : {MakeCommit(SubjA, p, AgentA, None, "signed") : p \in OrderPayloads},
                 res : OrderResources, update_index : BOOLEAN,
                 ord : Orders, phases : PhaseOrders]
    /\ resp = [ok |-> FALSE, pv |-> EmptyPropVals, rem |-> << >>, add |-> << >>]
    /\ procs = << >>
    /\ canon = None

\* apply_changes runs, up to its index calls.
ApplyInOrder ==
    /\ pc = "called"
    /\ resp' = ApplyChangesInOrder(req.c, req.res, req.update_index, req.ord,
                                   req.phases)
    /\ pc' = "returned"
    /\ UNCHANGED <<resources, index, req, resources0, index0, procs, canon>>

NextOrder == ApplyInOrder

SpecOrder == InitOrder /\ [][NextOrder]_vars

-----------------------------------------------------------------------------
(* apply_unsafe: callers that apply, without any validation, commits that  *)
(* each validation would refuse: unsigned or signed with another key, from *)
(* the future, by an agent without rights, lacking a required property,    *)
(* with a parent that is no prefix of the subject, without previous-commit.*)

UnsafePayloads ==
    {SetOne("description", VStr("hi")),
     SetOne("isA", VArr(<<ClassUrl("Doc")>>)),
     SetOne("parent", VUrl(SubjC)),
     PushOne("write", VArr(<<AgentB.subject>>)),
     Destroy}

UnsafeCommits ==
    {MakeCommit(SubjA, p, agent, None, kind) :
        p \in UnsafePayloads, agent \in {AgentA, AgentB},
        kind \in {"signed", "unsigned", "other_key"}}
    \cup {TimeCommit(2 * ACCEPTABLE_TIME_DIFFERENCE)}

UnsafeInputs ==
    {Frame(c, UnsafeOpts, 0, TRUE, PropOrder) : c \in UnsafeCommits}

NextUnsafe ==
    \/ \E f \in UnsafeInputs : Call(f)
    \/ Apply
    \/ Return

SpecUnsafe == Init /\ [][NextUnsafe]_vars

-----------------------------------------------------------------------------
(* Building: a caller fetches the stored version of a resource (or makes a *)
(* new one when the subject is absent), keeps it in procs[1], and applies  *)
(* commits built with CommitBuilder::new and signed against the version it *)
(* holds, which may have become stale.                                     *)

\* CommitBuilder::new(subject) with the changes of a payload
NewBuilder(subject, payload) ==
    Builder(subject, payload.set, payload.push, payload.remove,
            payload.destroy, None)

BuildPayloads ==
    {SetOne("description", VStr("hi")), SetOne("description", VStr("yo")),
     RemoveOne("description"), Destroy}

BuildOpts == CommitOpts(TRUE, TRUE, TRUE, FALSE, TRUE, TRUE, None, TRUE)

\* The version of the resource a caller gets from the store
VersionOf(st, subject) ==
    IF Stored(st, subject) THEN GetResource(st, subject)
    ELSE Resource(subject, EmptyPropVals)

InitBuild ==
    /\ resources = BaseStore
    /\ index = BuildIndex(BaseStore)
    /\ pc = "idle"
    /\ req = NoFrame
    /\ resp = NoFrame
    /\ resources0 = BaseStore
    /\ index0 = BuildIndex(BaseStore)
    /\ procs = <<VersionOf(BaseStore, SubjA)>>
    /\ canon = None

Fetch ==
    /\ pc = "idle"
    /\ procs' = <<VersionOf(resources, SubjA)>>
    /\ UNCHANGED <<resources, index, pc, req, resp, resources0, index0, canon>>

SignAndCall ==
    \E p \in BuildPayloads :
        LET r == Sign(NewBuilder(SubjA, p), AgentA, procs[1], 0)
        IN r.ok /\ Call(Frame(r.commit, BuildOpts, 0, TRUE, PropOrder))

NextBuild ==
    \/ Fetch
    \/ SignAndCall
    \/ Apply
    \/ Return

SpecBuild == InitBuild /\ [][NextBuild]_vars

-----------------------------------------------------------------------------
(* The server's helpers: authentication headers.  A header value is a      *)
(* sequence of bytes, written as one-character strings; "\\x80" stands for *)
(* a byte outside ASCII, which a HeaderValue may hold.                     *)

Digits == {"0", "1", "2", "3", "4", "5", "6", "7", "8", "9"}

DigitVal(ch) == CHOOSE n \in 0..9 : ToString(n) = ch

\* HeaderValue::to_str: fails on a byte that is no visible ASCII character
ToStrOk(bytes) == \A i \in 1..Len(bytes) : bytes[i] # "\\x80"

I64MaxDigits == <<"9","2","2","3","3","7","2","0","3","6","8","5","4","7","7","5","8","0","7">>
I64MinDigits == <<"9","2","2","3","3","7","2","0","3","6","8","5","4","7","7","5","8","0","8">>

RECURSIVE StripZeros(_)
StripZeros(ds) ==
    IF ds # << >> /\ Head(ds) = "0" THEN StripZeros(Tail(ds)) ELSE ds

\* a <= b for digit sequences of the same length
RECURSIVE DigitsLeq(_, _)
DigitsLeq(a, b) ==
    IF a = << >> THEN TRUE
    ELSE IF DigitVal(Head(a)) < DigitVal(Head(b)) THEN TRUE
    ELSE IF DigitVal(Head(a)) > DigitVal(Head(b)) THEN FALSE
    ELSE DigitsLeq(Tail(a), Tail(b))

\* str::parse::<i64>: an optional sign, at least one digit, nothing else,
\* within the range of i64.  The value is kept as sign and digits.
ParseI64(str) ==
    LET signed == str # << >> /\ Head(str) \in {"+", "-"}
        neg == str # << >> /\ Head(str) = "-"
        ds == IF signed THEN Tail(str) ELSE str
        mag == StripZeros(ds)
        bound == IF neg THEN I64MinDigits ELSE I64MaxDigits
    IN IF ds = << >> \/ \E i \in 1..Len(ds) : ds[i] \notin Digits
       THEN [ok |-> FALSE, neg |-> FALSE, digits |-> << >>]
       ELSE IF Len(mag) > Len(bound)
               \/ (Len(mag) = Len(bound) /\ ~DigitsLeq(mag, bound))
       THEN [ok |-> FALSE, neg |-> FALSE, digits |-> << >>]
       ELSE [ok |-> TRUE, neg |-> neg /\ mag # << >>, digits |-> mag]

HeaderNames ==
    {"x-atomic-public-key", "x-atomic-signature", "x-atomic-timestamp",
     "x-atomic-agent"}

AuthValues(public_key, signature, agent_subject, timestamp, requested_subject) ==
    [public_key |-> public_key, signature |-> signature,
     agent_subject |-> agent_subject, timestamp |-> timestamp,
     requested_subject |-> requested_subject]

AuthSome(a) == [kind |-> "some", auth |-> a]
AuthNone == [kind |-> "none"]
AuthError(msg) == [kind |-> "error", msg |-> msg]

\* A faulty variant of GetAuthHeaders: a request that lacks a header is
\* taken as one without authentication.
GetAuthHeadersLenient(map, requested_subject) ==
    IF HeaderNames \subseteq DOMAIN map
    THEN AuthSome(AuthValues(map["x-atomic-public-key"], map["x-atomic-signature"],
                             map["x-atomic-agent"],
                             ParseI64(map["x-atomic-timestamp"]), requested_subject))
    ELSE AuthNone

\* get_auth_headers(map, requested_subject)
GetAuthHeaders(map, requested_subject) ==
    IF HeaderNames \subseteq DOMAIN map
    THEN IF ~ToStrOk(map["x-atomic-public-key"]) THEN AuthError("only_string")
         ELSE IF ~ToStrOk(map["x-atomic-signature"]) THEN AuthError("only_string")
         ELSE IF ~ToStrOk(map["x-atomic-agent"]) THEN AuthError("only_string")
         ELSE IF ~ToStrOk(map["x-atomic-timestamp"]) THEN AuthError("only_string")
         ELSE IF ~ParseI64(map["x-atomic-timestamp"]).ok
         THEN AuthError("timestamp_number")
         ELSE AuthSome(AuthValues(map["x-atomic-public-key"],
                                  map["x-atomic-signature"],
                                  map["x-atomic-agent"],
                                  ParseI64(map["x-atomic-timestamp"]),
                                  requested_subject))
    ELSE IF HeaderNames \cap DOMAIN map = {}
    THEN AuthNone
    ELSE AuthError("missing_headers")

\* Requests: each of the four headers absent or present, with values that
\* are strings or not, and timestamps that parse or not.
TextValues == {<<"a">>, <<"\\x80">>}

TimestampValues ==
    {<<"1">>, <<"1", "2">>, <<"-", "3">>, <<"+", "4">>, <<"0", "0", "7">>,
     << >>, <<"-">>, <<"a", "1">>, <<"1", "a">>, <<" ", "1">>, <<"\\x80">>,
     I64MaxDigits, I64MinDigits, <<"-">> \o I64MinDigits,
     <<"-">> \o I64MaxDigits \o <<"0">>}

HeaderMaps ==
    UNION {[names -> TextValues \cup TimestampValues] : names \in SUBSET HeaderNames}

AuthHeaderMaps ==
    {m \in HeaderMaps :
        \A n \in DOMAIN m :
            IF n = "x-atomic-timestamp" THEN m[n] \in TimestampValues
            ELSE m[n] \in TextValues}

InitHeaders ==
    /\ resources = BaseStore
    /\ index = BuildIndex(BaseStore)
    /\ pc = "called"
    /\ req \in [map : AuthHeaderMaps, requested_subject : {SubjA, SubjC}]
    /\ resp = NoFrame
    /\ resources0 = BaseStore
    /\ index0 = BuildIndex(BaseStore)
    /\ procs = << >>
    /\ canon = None

GetAuthHeadersCall ==
    /\ pc = "called"
    /\ resp' = GetAuthHeaders(req.map, req.requested_subject)
    /\ pc' = "returned"
    /\ UNCHANGED <<resources, index, req, resources0, index0, procs, canon>>

NextHeaders == GetAuthHeadersCall

SpecHeaders == InitHeaders /\ [][NextHeaders]_vars

-----------------------------------------------------------------------------
(* The server's helpers: the session cookie.  The Cookie header is absent, *)
(* no string, or a string split at ';' into pieces: a piece that           *)
(* Cookie::parse refuses, a cookie of another name, or an atomic_session   *)
(* cookie.  The value of a session cookie is percent-encoded base64 of the *)
(* UTF-8 JSON of an AuthValues: it is written as the AuthValues it encodes,*)
(* or as the first decoding step that fails on it.                         *)

MaxCookies == 3

\* origin(url): scheme and authority of the URL
OriginOf(url) == Str(<<Head(url.path)>>)

\* The value of a cookie: the AuthValues it encodes, or the decoding step
\* that fails on it.
NoAuth == AuthValues("", "", Str(<< >>), 0, Str(<< >>))
Encoded(auth) == [decode |-> "ok", auth |-> auth]
Undecodable(step) == [decode |-> step, auth |-> NoAuth]

Unparsable == [name |-> "", value |-> Undecodable("none")]
OtherCookie == [name |-> "lang", value |-> Undecodable("none")]
SessionCookie(value) == [name |-> "atomic_session", value |-> value]

DecodeFailures == {"bad_percent", "bad_base64", "bad_utf8", "bad_json"}

\* The Cookie header: no string, or the pieces between its semicolons
NotAString == [is_str |-> FALSE, cookies |-> << >>]
CookieString(cookies) == [is_str |-> TRUE, cookies |-> cookies]

\* session_cookies_from_header: [ok, found] or the error
RECURSIVE SessionCookiesLoop(_, _)
SessionCookiesLoop(cookies, found) ==
    IF cookies = << >> THEN [ok |-> TRUE, found |-> found, msg |-> ""]
    ELSE LET cookie == Head(cookies)
         IN IF cookie = Unparsable
            THEN [ok |-> FALSE, found |-> << >>, msg |-> "cookie_parse"]
            ELSE IF cookie.name = "atomic_session"
            THEN IF cookie.value.decode = "bad_percent"
                 THEN [ok |-> FALSE, found |-> << >>, msg |-> "cookie_decode"]
                 ELSE SessionCookiesLoop(Tail(cookies), Append(found, cookie.value))
            ELSE SessionCookiesLoop(Tail(cookies), found)

SessionCookiesFromHeader(header) ==
    IF ~header.is_str
    THEN [ok |-> FALSE, found |-> << >>, msg |-> "header_not_string"]
    ELSE SessionCookiesLoop(header.cookies, << >>)

\* The loop of get_auth_from_cookie over the session cookies
RECURSIVE CookieLoop(_, _, _, _)
CookieLoop(encs, requested_subject, check_multiple, err) ==
    IF encs = << >> THEN AuthError(err)
    ELSE LET enc == Head(encs)
         IN IF enc.decode \in DecodeFailures
            THEN AuthError("unauthorized_malformed")
            ELSE IF /\ enc.auth.requested_subject # requested_subject
                    /\ enc.auth.requested_subject # OriginOf(requested_subject)
            THEN IF check_multiple
                 THEN CookieLoop(Tail(encs), requested_subject, check_multiple,
                                 "unauthorized_wrong_subject")
                 ELSE AuthError("unauthorized_wrong_subject")
            ELSE AuthSome(enc.auth)

\* A faulty variant of GetAuthFromCookie: only the first session cookie is
\* tried.
GetAuthFromCookieFirstOnly(header, requested_subject) ==
    IF header = None THEN AuthNone
    ELSE LET r == SessionCookiesFromHeader(Unwrap(header))
         IN IF ~r.ok THEN AuthError(r.msg)
            ELSE IF r.found = << >> THEN AuthNone
            ELSE CookieLoop(r.found, requested_subject, FALSE,
                            "unauthorized_none_valid")

\* get_auth_from_cookie(map, requested_subject); header is map.get("Cookie")
GetAuthFromCookie(header, requested_subject) ==
    IF header = None THEN AuthNone
    ELSE LET r == SessionCookiesFromHeader(Unwrap(header))
         IN IF ~r.ok THEN AuthError(r.msg)
            ELSE IF r.found = << >> THEN AuthNone
            ELSE CookieLoop(r.found, requested_subject, Len(r.found) > 1,
                            "unauthorized_none_valid")

\* The sessions a client can hold: for the resource, for its origin, for
\* another origin.
SessionOf(agent, subject) ==
    AuthValues(agent.public_key, "sig", agent.subject, 0, subject)

CookieChoices ==
    {Unparsable, OtherCookie}
    \cup {SessionCookie(Undecodable(v)) : v \in DecodeFailures}
    \cup {SessionCookie(Encoded(SessionOf(a, u))) :
             a \in {AgentA, AgentB}, u \in {SubjA, ServerUrl, SubjElsewhere}}

CookieHeaders ==
    {None, Some(NotAString)}
    \cup {Some(CookieString(h)) : h \in UNION {[1..n -> CookieChoices] : n \in 1..MaxCookies}}

InitCookie ==
    /\ resources = BaseStore
    /\ index = BuildIndex(BaseStore)
    /\ pc = "called"
    /\ req \in [header : CookieHeaders, requested_subject : {SubjA, ServerUrl}]
    /\ resp = NoFrame
    /\ resources0 = BaseStore
    /\ index0 = BuildIndex(BaseStore)
    /\ procs = << >>
    /\ canon = None

GetAuthFromCookieCall ==
    /\ pc = "called"
    /\ resp' = GetAuthFromCookie(req.header, req.requested_subject)
    /\ pc' = "returned"
    /\ UNCHANGED <<resources, index, req, resources0, index0, procs, canon>>

NextCookie == GetAuthFromCookieCall

SpecCookie == InitCookie /\ [][NextCookie]_vars

-----------------------------------------------------------------------------
(* Pushing: commits on one subject that push to a property that is absent, *)
(* holds an array or holds a string, push one or two elements or a value   *)
(* that is no array, and set or remove the property they push to.          *)

PushPayloads ==
    {PushOne("write", VArr(<<AgentB.subject>>)),
     PushOne("write", VArr(<<AgentB.subject, AgentA.subject>>)),
     PushOne("description", VArr(<<AgentB.subject>>)),
     PushOne("write", VStr("x")),
     SetOne("description", VStr("hi")),
     Payload([write |-> VArr(<<AgentA.subject>>)], << >>,
             [write |-> VArr(<<AgentB.subject>>)], FALSE),
     Payload(<< >>, <<"write">>,
             [write |-> VArr(<<AgentB.subject>>),
              isA |-> VArr(<<ClassUrl("Doc")>>)], FALSE)}

PushOpts ==
    {CommitOpts(FALSE, TRUE, FALSE, FALSE, FALSE, upd, None, FALSE) :
        upd \in BOOLEAN}

PushInputs ==
    {Frame(MakeCommit(SubjA, p, AgentA, None, "signed"), o, 0, TRUE, ord) :
        p \in PushPayloads, o \in PushOpts, ord \in {PropOrder, Reverse(PropOrder)}}

NextPush ==
    \/ \E f \in PushInputs : Call(f)
    \/ Apply
    \/ Return

SpecPush == Init /\ [][NextPush]_vars

-----------------------------------------------------------------------------
(* Paths with rights: the drive is writable by agent A; /a is a child of   *)
(* the drive, readable by agent B and linking to agent B and to /c; /c has *)
(* no parent and is readable by agent B only.                              *)

RightsStore ==
    BaseStore
    @@ (SubjA :> [parent |-> VUrl(ServerUrl),
                  read |-> VArr(<<AgentB.subject>>),
                  write |-> VArr(<<AgentB.subject, SubjC>>),
                  isA |-> VArr(<< >>)])
    @@ (SubjC :> [read |-> VArr(<<AgentB.subject>>),
                  description |-> VStr("hi")])

RightsFirstItems == {ServerUrl, SubjA, SubjC, SubjAB}

RightsItems == {"", "0", "1", "write", "isA", "description"}

RightsRests == UNION {[1..n -> RightsItems] : n \in 0..MaxPathItems}

InitPathRights ==
    /\ resources = RightsStore
    /\ index = BuildIndex(RightsStore)
    /\ resources0 = RightsStore
    /\ index0 = BuildIndex(RightsStore)
    /\ pc = "called"
    /\ req \in [first : RightsFirstItems, rest : RightsRests,
                 for_agent : {None, Some(AgentA.subject), Some(AgentB.subject)}]
    /\ resp = PathError("")
    /\ procs = << >>
    /\ canon = None

\* A caller calls store.get_path(atomic_path, None, for_agent).
GetPathForCall ==
    /\ pc = "called"
    /\ resp' \in GetPathFor(req.first, req.rest, None, req.for_agent, resources)
    /\ pc' = "returned"
    /\ UNCHANGED <<resources, index, req, resources0, index0, procs, canon>>

NextPathRights == GetPathForCall

SpecPathRights == InitPathRights /\ [][NextPathRights]_vars

-----------------------------------------------------------------------------
(* populate::create_drive with a drive name, called by two threads (the    *)
(* register plugin runs once per confirmation request).  A call checks     *)
(* that no resource is stored at the subdomain URL, builds the drive and   *)
(* saves it with save_locally, which applies a commit made of the changes  *)
(* of the resource; the store takes no lock between the check and the      *)
(* save.                                                                   *)

DriveNames == {"shop", "blog"}

\* lines 166-176: the server URL with the name as a subdomain
DriveSubject(name) ==
    CASE name = "shop" -> Str(<<"https://shop.h">>)
      [] OTHER -> Str(<<"https://blog.h">>)

\* lines 186-204: the changes made to the new drive: its class, its
\* description, and for_agent pushed to its rights.
DrivePayload(for_agent) ==
    Payload([isA |-> VArr(<<ClassUrl("Drive")>>), description |-> VStr("welcome")],
            << >>, [write |-> VArr(<<for_agent>>)], FALSE)

\* Resource::save_locally: the commit of the changes, signed by the
\* default agent of the store and applied without checking signature,
\* timestamp or rights.
SaveLocallyOpts(prev) == CommitOpts(TRUE, FALSE, FALSE, FALSE, prev, TRUE, None, FALSE)

\* A call of create_drive(store, Some(name), for_agent, false), before its
\* check.
DriveFrame(name, for_agent, prev) ==
    [Frame(MakeCommit(DriveSubject(name), DrivePayload(for_agent), AgentA, None,
                      "signed"),
           SaveLocallyOpts(prev), 0, TRUE, PropOrder)
     EXCEPT !.pc = "check"]

\* The agent a thread creates the drive for
DriveAgent(t) == IF t = 1 THEN AgentA.subject ELSE AgentB.subject

InitDrive ==
    /\ resources = BaseStore
    /\ index = BuildIndex(BaseStore)
    /\ pc = "idle"
    /\ req = NoFrame
    /\ resp = NoFrame
    /\ resources0 = BaseStore
    /\ index0 = BuildIndex(BaseStore)
    /\ procs = [t \in Threads |-> Idle]
    /\ canon = None

\* Thread t calls create_drive.
CreateDriveCall(t) ==
    /\ procs[t].pc = "idle"
    /\ \E name \in DriveNames, prev \in BOOLEAN :
          procs' = [procs EXCEPT ![t] = DriveFrame(name, DriveAgent(t), prev)]
    /\ UNCHANGED <<resources, index, pc, req, resp, resources0, index0, canon>>

\* lines 178-182: "Drive URL is already taken" if a resource is stored
CreateDriveCheck(t) ==
    /\ procs[t].pc = "check"
    /\ procs' = [procs EXCEPT ![t] =
                    IF Stored(resources, procs[t].c.subject)
                    THEN Fail(@, "drive_taken")
                    ELSE [@ EXCEPT !.pc = "start"]]
    /\ UNCHANGED <<resources, index, pc, req, resp, resources0, index0, canon>>

\* line 207: save_locally, one step of its apply_opts at a time
SaveLocallyStep(t) ==
    /\ procs[t].pc # "check"
    /\ ParStep(t)

NextDrive ==
    \/ \E t \in Threads : CreateDriveCall(t)
    \/ \E t \in Threads : CreateDriveCheck(t)
    \/ \E t \in Threads : SaveLocallyStep(t)

SpecDrive == InitDrive /\ [][NextDrive]_vars

-----------------------------------------------------------------------------
(* Round trip: a commit is turned into its resource and read back, as the  *)
(* server does with a posted commit.  The commits are built by a           *)
(* CommitBuilder (every optional part Some) or have parts that are None,   *)
(* and are signed, signed with another key, or unsigned.                   *)

RoundTripPayloads ==
    {SetOne("description", VStr("hi")),
     Payload(<< >>, << >>, << >>, FALSE),
     Payload(("description" :> VStr("yo")), <<"parent", "write">>, << >>, FALSE),
     PushOne("write", VArr(<<AgentB.subject, AgentA.subject>>)),
     Payload([description |-> VStr("hi"), parent |-> VUrl(ServerUrl)],
             <<"isA">>, [write |-> VArr(<<AgentB.subject>>)], FALSE),
     Destroy}

\* The commit with its destroy = Some(false) and its empty remove and push
\* left out
WithoutEmptyParts(c) ==
    [c EXCEPT !.destroy = IF @ = Some(FALSE) THEN None ELSE @,
              !.remove = IF @ = Some(<< >>) THEN None ELSE @,
              !.push = IF @ = Some(<< >>) THEN None ELSE @]

RoundTripCommits ==
    LET built == {MakeCommit(s, p, agent, prev, kind) :
                     s \in {SubjA, SubjAB}, p \in RoundTripPayloads,
                     agent \in {AgentA, AgentB}, prev \in {None, Some(SubjC)},
                     kind \in {"signed", "unsigned", "other_key"}}
    IN built \cup {WithoutEmptyParts(c) : c \in built}

InitRoundTrip ==
    /\ resources = BaseStore
    /\ index = BuildIndex(BaseStore)
    /\ resources0 = BaseStore
    /\ index0 = BuildIndex(BaseStore)
    /\ pc = "called"
    /\ req \in [c : RoundTripCommits, now : {0, 1}]
    /\ resp = [ok |-> FALSE, commit |-> NoCommit, url |-> None]
    /\ procs = << >>
    /\ canon = None

\* Commit::from_resource(commit.into_resource(store)?)
RoundTrip ==
    /\ pc = "called"
    /\ IntoResourceOk(req.c)
    /\ resp' = FromResource(IntoResource(req.c, req.now))
    /\ pc' = "returned"
    /\ UNCHANGED <<resources, index, req, resources0, index0, procs, canon>>

NextRoundTrip == RoundTrip

SpecRoundTrip == InitRoundTrip /\ [][NextRoundTrip]_vars

-----------------------------------------------------------------------------
(* Removing: one call per behaviour, with every combination of CommitOpts  *)
(* that has update_index on, of a commit by agent A that removes           *)
(* properties the target has or does not have; the target is new or is the *)
(* resource the first commit created.                                      *)

RemoveOpts == {o \in AllOpts : o.update_index /\ o.validate_for_agent = None}
              \cup {CommitOpts(a, b, TRUE, d, e, TRUE, Some(AgentA.subject), TRUE) :
                       a \in BOOLEAN, b \in BOOLEAN, d \in BOOLEAN, e \in BOOLEAN}

RemovePayloads ==
    {RemoveOne("parent"), RemoveOne("description"),
     Payload(<< >>, <<"write", "description", "parent">>, << >>, FALSE),
     Payload(("description" :> VStr("yo")), <<"write">>, << >>, FALSE)}

RemoveInputs ==
    {Frame(MakeCommit(SubjA, p, AgentA, prev, "signed"), o, 0, TRUE, PropOrder) :
        p \in RemovePayloads, prev \in PrevChoices(FirstApplied.st), o \in RemoveOpts}

InitRemove ==
    /\ \E first \in {Out(NoFrame, BaseStore, BuildIndex(BaseStore)), FirstApplied} :
          /\ resources = first.st
          /\ index = first.idx
          /\ resources0 = first.st
          /\ index0 = first.idx
    /\ pc = "called"
    /\ req \in RemoveInputs
    /\ resp = NoFrame
    /\ procs = << >>
    /\ canon = None

NextRemove ==
    \/ Apply
    \/ Return

SpecRemove == InitRemove /\ [][NextRemove]_vars

-----------------------------------------------------------------------------
(* Claims *)

Returned == pc = "returned"
Succeeded == pc = "returned" /\ resp.result = "ok"
Unchanged == resources = resources0 /\ index = index0
IsDestroy(c) == IsSome(c.destroy) /\ Unwrap(c.destroy)

\* What the stored resource at the call's subject had as lastCommit when the
\* call was made (None if the subject was absent or had none).
OldLastCommit ==
    IF Stored(resources0, req.c.subject)
       /\ Has(resources0[req.c.subject], "lastCommit")
    THEN Some(ValueToString(resources0[req.c.subject]["lastCommit"]))
    ELSE None

\* The calls that apply, right after the call that returned, a commit built
\* from the same last-commit value as the returned call's commit.
SecondCalls ==
    {ApplyOpts(c2, o2, 0, TRUE, PropOrder, resources, index) :
        c2 \in {c \in MainCommits(resources) :
                   /\ c.subject = req.c.subject
                   /\ c.previous_commit = req.c.previous_commit},
        o2 \in {o \in MainOpts : o.validate_previous_commit}}

\* C2, first sentence: with validate_previous_commit on, a commit on an
\* existing resource that has a last-commit fails, leaving the store as it
\* was, unless its previous-commit equals that last-commit.
C2_PreviousCommitRequired ==
    (/\ Returned
     /\ req.opts.validate_previous_commit
     /\ IsSome(OldLastCommit)
     /\ req.c.previous_commit # OldLastCommit)
    => /\ resp.result \in {"previous_commit_mismatch", "previous_commit_missing"}
       /\ Unchanged

\* The first of two commits built from the same last-commit value was
\* applied with success.
C2_FirstApplied ==
    /\ Succeeded
    /\ req.opts.validate_previous_commit
    /\ IsSome(OldLastCommit)
    /\ req.c.previous_commit = OldLastCommit

C2_SecondFails ==
    \A o \in SecondCalls : o.f.result # "ok" /\ o.st = resources

\* C2 as claimed: the above, and of two commits built from the same
\* last-commit value the second one applied fails and the resource stays as
\* the first commit left it.
C2_Original ==
    /\ C2_PreviousCommitRequired
    /\ C2_FirstApplied => C2_SecondFails

\* C2 as amended: the same, when the first commit does not destroy the
\* resource (after a destroy the subject is new, and the previous-commit of
\* a commit on a new subject is not checked).
C2_SecondCommitFails ==
    /\ C2_PreviousCommitRequired
    /\ (C2_FirstApplied /\ ~IsDestroy(req.c)) => C2_SecondFails

C2_Witness ==
    /\ C2_FirstApplied
    /\ ~IsDestroy(req.c)
    /\ \E o \in SecondCalls : o.f.result = "previous_commit_mismatch"


StoredLastCommit ==
    IF Stored(resources, req.c.subject)
       /\ Has(resources[req.c.subject], "lastCommit")
    THEN Some(ValueToString(resources[req.c.subject]["lastCommit"]))
    ELSE None

\* C3 as claimed (chain linearity): after every successful non-destroy
\* apply_opts the stored resource's last-commit is the URL of the applied
\* commit resource, and the commit's previous-commit is the last-commit the
\* resource had before (both absent when the commit creates the resource).
C3_Original ==
    (Succeeded /\ ~IsDestroy(req.c))
    => /\ StoredLastCommit = Some(resp.commit_resource.subject)
       /\ req.c.previous_commit = OldLastCommit

\* C3 as amended: the last-commit is stamped by every successful
\* non-destroy apply_opts; the commit's previous-commit equals the old
\* last-commit when validate_previous_commit is on and the resource existed
\* with a last-commit.
C3_ChainLinearity ==
    (Succeeded /\ ~IsDestroy(req.c))
    => /\ StoredLastCommit = Some(resp.commit_resource.subject)
       /\ resp.commit_resource.subject = CommitUrl(req.c.signature, req.now)
       /\ (req.opts.validate_previous_commit /\ IsSome(OldLastCommit))
          => req.c.previous_commit = OldLastCommit

C3_Witness ==
    /\ Succeeded
    /\ ~IsDestroy(req.c)
    /\ req.opts.validate_previous_commit
    /\ IsSome(OldLastCommit)
    /\ StoredLastCommit # OldLastCommit

\* C4 (index consistency): with every call updating the index, the index
\* holds exactly the atoms of the stored resources.
C4_IndexConsistent == index = BuildIndex(resources)

\* C6 (destroy): after a successful destroy of an existing resource with
\* update_index on, the subject is not found, the index lists the subject
\* under none of the (property, value) pairs the resource had, the commit
\* resource is stored at its URL, and the response has no new resource.
C6_Destroy ==
    (/\ Succeeded
     /\ IsDestroy(req.c)
     /\ req.opts.update_index
     /\ Stored(resources0, req.c.subject))
    => /\ ~Stored(resources, req.c.subject)
       /\ index \cap IndexKeysOf(ToAtoms(GetResource(resources0, req.c.subject))) = {}
       /\ Stored(resources, resp.commit_resource.subject)
       /\ resp.response_new = None

\* The part of C6 the code keeps: the resource is gone, the commit is stored.
C6_DestroyedAndCommitKept ==
    (/\ Succeeded
     /\ IsDestroy(req.c)
     /\ Stored(resources0, req.c.subject))
    => /\ ~Stored(resources, req.c.subject)
       /\ Stored(resources, resp.commit_resource.subject)
       /\ resp.response_new = None

-----------------------------------------------------------------------------
(* Claims about concurrent calls (SpecPar) *)

LastCommitAtStart == Some(FirstApplied.f.commit_resource.subject)

\* Both threads returned from calls with validate_previous_commit on, for
\* two different commits that both carry the previous-commit the resource
\* had as last-commit when they started.
BothReturned ==
    /\ \A t \in Threads :
          /\ procs[t].pc = "done"
          /\ procs[t].opts.validate_previous_commit
          /\ procs[t].c.previous_commit = LastCommitAtStart
    /\ procs[1].c # procs[2].c

\* C1: of two concurrent apply_opts calls with validate_previous_commit on,
\* for different commits on the same existing subject that both carry the
\* resource's current last-commit as previous-commit, at most one succeeds
\* and the other fails with a previous-commit conflict.
C1_AtMostOneSucceeds ==
    BothReturned
    => \E t \in Threads :
          /\ procs[t].result = "previous_commit_mismatch"
          /\ procs[3 - t].result = "ok"

\* The thread is inside a call that updates the index.
InFlight(t) ==
    /\ procs[t].pc \notin {"idle", "start", "load", "rights", "done"}
    /\ procs[t].opts.update_index

\* C5: while one apply_opts call with update_index on is between two of its
\* steps (the other thread not having called), the index lists the subject
\* under a (property, value) the commit sets exactly when the stored
\* resource holds that value.
C5_IndexAndResourceTogether ==
    \A t \in Threads :
        (InFlight(t) /\ procs[3 - t].pc = "idle" /\ IsSome(procs[t].c.set))
        => \A k \in DOMAIN Unwrap(procs[t].c.set) :
              LET v == Unwrap(procs[t].c.set)[k]
                  s == procs[t].c.subject
              IN (IndexKeys(Atom(s, k, v)) \subseteq index)
                 <=> (Stored(resources, s) /\ Has(resources[s], k)
                        /\ resources[s][k] = v)

-----------------------------------------------------------------------------
(* Claims about rights (SpecAuth) *)

\* The agent the rights are checked for.
AuthAgent ==
    IF IsSome(req.opts.validate_for_agent)
    THEN Unwrap(req.opts.validate_for_agent)
    ELSE req.c.signer

\* The agent has the right the commit needs: write rights on the resource
\* as stored before the call (with the drive as parent if it has none), or,
\* for a new subject, append rights on the parent chain of the new resource.
Authorized ==
    IF Stored(resources0, req.c.subject)
    THEN CheckWrite(resources0,
                    WithDefaultParent(GetResource(resources0, req.c.subject)),
                    AuthAgent)
    ELSE CheckAppend(resources0, resp.resource_new, AuthAgent)

\* C7: with validate_rights on, a call succeeds only if the agent has write
\* rights on the resource as stored before the commit (append rights on the
\* new resource's parent chain for a new subject); a commit by an agent
\* without them fails and changes nothing, whatever `write` or `parent` it
\* sets.
C7_RightsOnOldResource ==
    (Returned /\ req.opts.validate_rights)
    => /\ Succeeded => Authorized
       /\ ~Authorized => /\ resp.result \in {"no_write_right", "no_append_right"}
                         /\ Unchanged

\* Agent B, without write rights on the stored resource, sent a commit that
\* sets `write` to itself, and the call failed.
C7_Witness ==
    /\ Returned
    /\ req.opts.validate_rights
    /\ Stored(resources0, req.c.subject)
    /\ AuthAgent = AgentB.subject
    /\ ~Authorized
    /\ IsSome(req.c.set)
    /\ InArray(Unwrap(req.c.set), "write", AgentB.subject)
    /\ resp.result = "no_write_right"

-----------------------------------------------------------------------------
(* Claims about the subject and its parent (SpecParent) *)

\* The call is for a new subject and its commit sets a parent.
DeclaresParent ==
    /\ ~Stored(resources0, req.c.subject)
    /\ IsSome(req.c.set)
    /\ Has(Unwrap(req.c.set), "parent")

DeclaredParent == ValueToString(Unwrap(req.c.set)["parent"])

\* C8: with validate_subject_url_parent on, a commit that creates a new
\* subject and declares a parent passes only if the subject starts with the
\* parent; otherwise the call fails and neither the resource nor the commit
\* is stored.  The rule rejects nothing but such commits: not a commit on an
\* existing subject, and none when the option is off.
C8_SubjectStartsWithParent ==
    Returned
    => /\ (/\ req.opts.validate_subject_url_parent
           /\ DeclaresParent
           /\ ~StartsWith(req.c.subject, DeclaredParent))
          => /\ resp.result = "parent_prefix"
             /\ Unchanged
             /\ ~Stored(resources, req.c.subject)
             /\ ~Stored(resources, CommitUrl(req.c.signature, req.now))
       /\ resp.result = "parent_prefix"
          => /\ req.opts.validate_subject_url_parent
             /\ DeclaresParent
             /\ ~StartsWith(req.c.subject, DeclaredParent)

\* New https://h/a/b with parent https://h/c was refused.
C8_Witness ==
    /\ Returned
    /\ req.opts.validate_subject_url_parent
    /\ req.c.subject = SubjAB
    /\ DeclaresParent
    /\ DeclaredParent = SubjC
    /\ resp.result = "parent_prefix"

-----------------------------------------------------------------------------
(* Claims about the subject (SpecSubject) *)

\* C9: whatever the CommitOpts (those of apply_unsafe included), a commit
\* whose subject is no absolute URL or has a query is rejected before the
\* store is read or written, and the store is unchanged; a commit with a
\* valid subject without query is not rejected for its subject.
C9_InvalidSubjectRejected ==
    Returned
    => /\ req.c.subject \in InvalidSubjects
          => /\ resp.result \in {"not_url", "query"}
             /\ ~resp.accessed
             /\ Unchanged
       /\ req.c.subject = SubjA => resp.result \notin {"not_url", "query"}

\* apply_unsafe of a commit whose subject has a query was refused.
C9_Witness ==
    /\ Returned
    /\ req.opts = UnsafeOpts
    /\ req.c.subject = SubjQuery
    /\ resp.result = "query"

-----------------------------------------------------------------------------
(* Claims about signatures (SpecSign) *)

\* The CommitBuilder a commit made by sign_at came from.
BuilderOf(c) ==
    Builder(c.subject, Unwrap(c.set), Unwrap(c.push), Unwrap(c.remove),
            Unwrap(c.destroy), c.previous_commit)

\* The commit is what sign_at returns for an agent with a private key.
ProducedBySignAt(c) ==
    /\ IsSome(c.set) /\ IsSome(c.push) /\ IsSome(c.remove) /\ IsSome(c.destroy)
    /\ \E agent \in {AgentA, AgentB} :
          LET r == SignAt(BuilderOf(c), agent, c.created_at)
          IN r.ok /\ r.commit = c

HoldsPublicKey(st, signer) == Stored(st, signer) /\ Has(st[signer], "publicKey")

\* C10 (round-trip signing): for a commit produced by sign_at, the string
\* that was signed is the canonical string computed from the signed commit,
\* and apply_opts with validate_signature on, against a store that holds
\* the signer's public key, does not fail on the signature.
C10_SignedCommitVerifies ==
    (pc # "idle" /\ ProducedBySignAt(req.c))
    => /\ Unwrap(req.c.signature).msg = SerializeDeterministically(req.c)
       /\ (/\ Returned
           /\ req.opts.validate_signature
           /\ HoldsPublicKey(resources0, req.c.signer))
          => /\ SignatureCheck(req.c, resources0) = "ok"
             /\ resp.result \notin {"no_signature", "signer_not_found",
                                    "no_public_key", "serialize", "bad_signature"}

\* A commit produced by sign_at with a set, a remove and a previous-commit
\* was applied with validate_signature on.
C10_Witness ==
    /\ Succeeded
    /\ ProducedBySignAt(req.c)
    /\ req.opts.validate_signature
    /\ Unwrap(req.c.remove) # << >>
    /\ IsSome(req.c.previous_commit)

-----------------------------------------------------------------------------
(* Claims about the canonical serialization (SpecCanon) *)

Serialized == IsSome(canon)

\* The keys of a JSON object, in the order they are emitted.
JsonKeys(members) == [i \in 1..Len(members) |-> members[i][1]]

\* The keys of the object are in the lexicographic order of the URLs, and
\* so are those of every object nested in it.
RECURSIVE KeysSorted(_)
KeysSorted(members) ==
    /\ \A i \in 1..Len(members) : \A j \in 1..Len(members) :
          i < j => UrlRank(members[i][1]) < UrlRank(members[j][1])
    /\ \A i \in 1..Len(members) :
          members[i][2][1] = "obj" => KeysSorted(members[i][2][2])

\* The value emitted under a key of the object.
JsonGet(members, key) ==
    LET i == CHOOSE i \in 1..Len(members) : members[i][1] = key
    IN members[i][2]

JsonHas(members, key) == \E i \in 1..Len(members) : members[i][1] = key

\* C11 (canonical stability): the string does not depend on the iteration
\* order of the maps: every other order gives the same string; its keys are
\* in lexicographic order of the property URLs at every nesting level, and
\* the arrays (remove, and the arrays in set and push) are in the order the
\* commit has them.
C11_CanonicalStability ==
    Serialized
    => /\ \A ord \in Orders : SerializeInOrder(req.c, ord) = Unwrap(canon)
       /\ KeysSorted(Unwrap(canon))
       /\ (IsSome(req.c.remove) /\ Unwrap(req.c.remove) # << >>)
          => JsonGet(Unwrap(canon), PropUrl("remove"))
                = VArr([i \in 1..Len(Unwrap(req.c.remove)) |->
                           PropUrl(Unwrap(req.c.remove)[i])])
       /\ \A f \in {"set", "push"} :
             JsonHas(Unwrap(canon), PropUrl(f))
             => \A k \in DOMAIN Unwrap(req.c[f]) :
                   JsonGet(JsonGet(Unwrap(canon), PropUrl(f))[2], PropUrl(k))
                      = Unwrap(req.c[f])[k]

\* A commit with three properties in set, two in push and two in remove was
\* serialized in a run that iterates its maps in another order than the
\* lexicographic one.
C11_Witness ==
    /\ Serialized
    /\ req.ord # PropOrder
    /\ IsSome(req.c.set) /\ Cardinality(DOMAIN Unwrap(req.c.set)) = 3
    /\ IsSome(req.c.push) /\ Cardinality(DOMAIN Unwrap(req.c.push)) = 2
    /\ Len(Unwrap(req.c.remove)) = 2
    /\ JsonKeys(JsonGet(Unwrap(canon), PropUrl("set"))[2])
          = <<PropUrl("description"), PropUrl("parent"), PropUrl("write")>>

\* The property URLs the canonical string has as top-level keys.
CanonKeys == {JsonKeys(Unwrap(canon))[i] : i \in 1..Len(Unwrap(canon))}

\* C12: the canonical serialization never has the signature, whether or not
\* the commit has one; it always has subject, createdAt, signer and
\* isA = [Commit]; it has destroy only when destroy is true, remove only
\* when the remove list is non-empty, push only when the push map is
\* non-empty, and previousCommit only when the commit has one.
C12_CanonicalContents ==
    Serialized
    => /\ PropUrl("signature") \notin CanonKeys
       /\ {PropUrl("subject"), PropUrl("createdAt"), PropUrl("signer"),
           PropUrl("isA")} \subseteq CanonKeys
       /\ JsonGet(Unwrap(canon), PropUrl("isA")) = VArr(<<ClassUrl("Commit")>>)
       /\ JsonGet(Unwrap(canon), PropUrl("subject")) = VUrl(req.c.subject)
       /\ JsonGet(Unwrap(canon), PropUrl("signer")) = VUrl(req.c.signer)
       /\ JsonGet(Unwrap(canon), PropUrl("createdAt")) = VInt(req.c.created_at)
       /\ PropUrl("destroy") \in CanonKeys
          <=> (IsSome(req.c.destroy) /\ Unwrap(req.c.destroy))
       /\ PropUrl("remove") \in CanonKeys
          <=> (IsSome(req.c.remove) /\ Unwrap(req.c.remove) # << >>)
       /\ PropUrl("push") \in CanonKeys
          <=> (IsSome(req.c.push) /\ DOMAIN Unwrap(req.c.push) # {})
       /\ PropUrl("previousCommit") \in CanonKeys
          <=> IsSome(req.c.previous_commit)

\* A signed commit with destroy = false, an empty remove list and an empty
\* push map was serialized.
C12_Witness ==
    /\ Serialized
    /\ IsSome(req.c.signature)
    /\ req.c.destroy = Some(FALSE)
    /\ req.c.remove = Some(<< >>)
    /\ IsSome(req.c.push) /\ DOMAIN Unwrap(req.c.push) = {}
    /\ PropUrl("set") \in CanonKeys

-----------------------------------------------------------------------------
(* Claims about what a successful call stores (SpecStore) *)

\* The stored commit resource has the commit's subject and set.
CommitStoredAt(url) ==
    /\ Stored(resources, url)
    /\ resources[url]["subject"] = VUrl(req.c.subject)
    /\ resources[url]["set"] = VNested(Unwrap(req.c.set))

\* What C13 says of a successful non-destroy call, for the properties
\* `props` of the commit's set.
StoredAsSet(props) ==
    (Succeeded /\ ~IsDestroy(req.c))
    => /\ \A k \in props : /\ Has(resources[req.c.subject], k)
                           /\ resources[req.c.subject][k] = Unwrap(req.c.set)[k]
       /\ IsSome(req.c.signature)
          => CommitStoredAt([path |-> ServerUrl.path \o <<"/c", "ommits/">>,
                             sig |-> req.c.signature])
       /\ ~IsSome(req.c.signature)
          => CommitStoredAt(Str(ServerUrl.path
                                \o <<"/c", "ommits-unsigned/", ToString(req.now)>>))

\* C13 as claimed: after a successful apply_opts of a non-destroy commit,
\* the stored resource has V at P for every (P, V) of the commit's set, and
\* the commit is stored with its subject and set at <server>/commits/
\* <signature>, or at <server>/commits-unsigned/<timestamp> if unsigned.
C13_Original == StoredAsSet(DOMAIN Unwrap(req.c.set))

\* C13 as amended: the same, for the properties of set that the commit does
\* not also push to and that are not lastCommit (push appends to the value
\* set, and lastCommit is stamped with the commit's URL after the changes).
C13_SetValuesStored ==
    StoredAsSet((DOMAIN Unwrap(req.c.set))
                \ ({"lastCommit"} \cup DOMAIN Unwrap(req.c.push)))

\* A signed commit that sets two properties was applied.
C13_Witness ==
    /\ Succeeded
    /\ IsSome(req.c.signature)
    /\ req.opts.validate_signature
    /\ Cardinality(DOMAIN Unwrap(req.c.set)) = 2
    /\ resources[req.c.subject]["description"] = VStr("yo")

-----------------------------------------------------------------------------
(* Claims about remove (SpecRemove) *)

\* The properties the commit removes that the stored resource does not have
\* (all it removes, if the subject is not stored).
RemovedAbsent ==
    {Unwrap(req.c.remove)[i] : i \in 1..Len(Unwrap(req.c.remove))}
    \ (IF Stored(resources0, req.c.subject)
       THEN DOMAIN resources0[req.c.subject] ELSE {})

\* Nothing but the removes can make the call fail: the target is stored,
\* the commit carries its last-commit, and the agent has write rights.
OtherwiseValid ==
    /\ Stored(resources0, req.c.subject)
    /\ req.c.previous_commit = OldLastCommit

\* The call succeeds when nothing else is in its way, and makes no index
\* call for, and no index change under, the properties `props`.
NoIndexCallFor(props) ==
    (Returned /\ req.opts.update_index /\ props # {})
    => /\ resp.result # "apply_changes"
       /\ OtherwiseValid => Succeeded
       /\ \A i \in 1..Len(resp.index_calls) :
             resp.index_calls[i][2].p \notin props
       /\ \A e \in index \cup index0 :
             (e.s = req.c.subject /\ e.p \in props)
             => (e \in index <=> e \in index0)

\* C14 (idempotent remove): with update_index on, whatever the other
\* CommitOpts, a commit that removes a property the stored resource does not
\* have is applied successfully, and that remove entry causes no call to
\* remove_atom_from_index or add_atom_to_index.
C14_IdempotentRemove == NoIndexCallFor(RemovedAbsent)

\* What holds of it: the same for every absent property but `parent` in a
\* call with validate_rights on, where the old resource was given the
\* default parent before the index-updating apply_changes.
C14_ExceptDefaultParent ==
    NoIndexCallFor(RemovedAbsent
                   \ (IF req.opts.validate_rights THEN {"parent"} ELSE {}))

\* A commit that removes `write` and `parent`, which the stored resource
\* does not have, was applied with validate_rights on.
C14_RemovedAbsentApplied ==
    /\ Succeeded
    /\ req.opts.validate_rights /\ req.opts.validate_previous_commit
    /\ RemovedAbsent = {"write", "parent"}

\* C15 (schema closure): when apply_opts with validate_schema on succeeds
\* for a commit that does not destroy, the resource stored at the commit's
\* subject has every property its classes require.
C15_SchemaClosure ==
    (Succeeded /\ req.opts.validate_schema /\ ~IsDestroy(req.c))
    => /\ Stored(resources, req.c.subject)
       /\ CheckRequiredProps(resources[req.c.subject])

\* A commit that made the subject a Doc was applied with the schema
\* validated.
C15_Witness ==
    /\ Succeeded /\ req.opts.validate_schema /\ ~IsDestroy(req.c)
    /\ HasClass(resources[req.c.subject], ClassUrl("Doc"))
    /\ ~(Stored(resources0, req.c.subject)
         /\ HasClass(resources0[req.c.subject], ClassUrl("Doc")))

\* C16 (commit resources are immutable): a stored commit resource is not
\* changed or deleted by any later apply_opts call with the pre-hooks on; a
\* commit whose target is a resource of class Commit is rejected; and a
\* call whose commit URL is already stored fails.
C16_CommitNeverMutated ==
    Returned =>
       /\ \A u \in CommitUrls(resources0) :
             Stored(resources, u) /\ resources[u] = resources0[u]
       /\ (req.db /\ req.c.subject \in CommitUrls(resources0)) => ~Succeeded
       /\ Succeeded => ~Stored(resources0, resp.commit_resource.subject)

\* The part that holds: a call whose commit URL is already stored fails and
\* leaves the stored commit as it was.
C16_NoOverwrite ==
    (Returned /\ resp.commit_resource # NoResource
       /\ Stored(resources0, resp.commit_resource.subject))
    => /\ ~Succeeded
       /\ resources[resp.commit_resource.subject]
             = resources0[resp.commit_resource.subject]

-----------------------------------------------------------------------------
(* Claims about the notification (SpecPar, SpecStore) *)

\* The commit resource and the new version of the target of thread t's call
\* are in the store.
BothWritten(t) ==
    /\ Stored(resources, procs[t].commit_resource.subject)
    /\ resources[procs[t].commit_resource.subject]
          = procs[t].commit_resource.propvals
    /\ Stored(resources, procs[t].c.subject)
    /\ resources[procs[t].c.subject] = procs[t].resource_new.propvals

\* C17 (notification after persistence): store.handle_commit is invoked by
\* a call only when the commit resource and the new version of the target
\* have been written (seen while no other call runs), and never by a call
\* that returns an error.
C17_HandleAfterWritten ==
    \A t \in Threads :
        /\ procs[t].handled > 0
              => /\ procs[t].pc = "done" /\ procs[t].result = "ok"
                 /\ procs[3 - t].pc = "idle" => BothWritten(t)
        /\ (procs[t].pc = "done" /\ procs[t].result # "ok")
              => procs[t].handled = 0

\* A call has invoked handle_commit while the other thread had not called.
C17_Witness ==
    \E t \in Threads :
        /\ procs[t].handled = 1 /\ procs[3 - t].pc = "idle"
        /\ procs[t].resource_new.propvals # resources0[procs[t].c.subject]

\* C18 (notification of every applied commit): every apply_opts call that
\* persists a commit, a destroying one too, invokes store.handle_commit
\* exactly once.
C18_HandledWhenPersisted ==
    (Returned /\ resp.commit_resource # NoResource
       /\ ~Stored(resources0, resp.commit_resource.subject)
       /\ Stored(resources, resp.commit_resource.subject))
    => resp.handled = 1

\* The part that holds: a call that persists a commit that does not destroy
\* invokes handle_commit exactly once.
C18_HandledUnlessDestroy ==
    (Returned /\ resp.commit_resource # NoResource
       /\ ~Stored(resources0, resp.commit_resource.subject)
       /\ Stored(resources, resp.commit_resource.subject)
       /\ ~IsDestroy(req.c))
    => resp.handled = 1

-----------------------------------------------------------------------------
(* Claims about failing calls (SpecErrors) *)

\* The errors of the phases up to the pre-hooks (commit.rs 93-225).
ListedErrors ==
    {"not_url", "query", "no_signature", "signer_not_found", "no_public_key",
     "serialize", "bad_signature", "timestamp", "into_resource",
     "previous_commit_mismatch", "previous_commit_missing", "apply_changes",
     "parent_prefix", "no_append_right", "no_self_url", "no_write_right",
     "schema", "classes", "commits_not_editable"}

\* The call returned an error raised before the index-updating apply_changes
\* of line 244: in one of the phases above or in the destroy branch.
ErrorBeforeReapply ==
    /\ Returned
    /\ \/ resp.result \in ListedErrors
       \/ resp.result \in {"remove_absent", "commit_exists"} /\ IsDestroy(req.c)

\* C19 (early errors leave the store alone): when apply_opts returns an
\* error from a phase before the index-updating re-apply, no resource was
\* added, changed or removed, no commit resource was stored and no index
\* entry was added or removed.
C19_EarlyErrorLeavesStore == ErrorBeforeReapply => Unchanged

\* The part that holds: the same for the errors of the phases up to the
\* pre-hooks.
C19_ListedErrorLeavesStore ==
    (Returned /\ resp.result \in ListedErrors) => Unchanged

\* The target of the call is stored as it was before the call, or is absent
\* as it was.
TargetUnchanged ==
    /\ Stored(resources, req.c.subject) <=> Stored(resources0, req.c.subject)
    /\ Stored(resources, req.c.subject)
          => resources[req.c.subject] = resources0[req.c.subject]

\* C20 (late errors abort atomically): when a step from the index-updating
\* re-apply onward fails, as persisting the commit does when its URL is
\* already stored, the index and the target resource are left as they were
\* before the call.
C20_LateErrorAbortsAtomically ==
    (Returned /\ resp.result = "commit_exists" /\ ~IsDestroy(req.c))
    => (index = index0 /\ TargetUnchanged)

\* The part that holds: the target resource is left as it was.
C20_LateErrorLeavesTarget ==
    (Returned /\ resp.result = "commit_exists" /\ ~IsDestroy(req.c))
    => TargetUnchanged

-----------------------------------------------------------------------------
(* Claims about the post-hooks (SpecHook) *)

\* The call reached its post-hook and the hook failed.
PostHookFailed ==
    /\ Returned /\ resp.handled = 1
    /\ req.db /\ ~req.hook_ok
    /\ HasClass(resp.resource_new.propvals, ClassUrl("Message"))

\* The commit resource and the new resource of the call are stored.
CommitAndResourceStored ==
    /\ Stored(resources, resp.commit_resource.subject)
    /\ resources[resp.commit_resource.subject] = resp.commit_resource.propvals
    /\ Stored(resources, req.c.subject)
    /\ resources[req.c.subject] = resp.resource_new.propvals

\* C21 (post-hook failures): a post-hook failure after the commit and the
\* resource were persisted rolls nothing back, and apply_opts does not
\* report the commit as failed.
C21_PostHookFailureOnlyLogged ==
    PostHookFailed => (CommitAndResourceStored /\ resp.result = "ok")

\* The part that holds: nothing is rolled back.
C21_PostHookFailureKeepsStore == PostHookFailed => CommitAndResourceStored

-----------------------------------------------------------------------------
(* Claims about the timestamp (SpecTime) *)

C23_ExpiredRejected ==
    (Returned /\ req.opts.validate_timestamp
       /\ (req.c.created_at < req.now - 10000 \/ req.c.created_at > req.now + 10000))
    => ~Succeeded

-----------------------------------------------------------------------------
(* Claims about external subjects (SpecExternal, SpecPost) *)

\* The subject's host, or its host after stripping one leftmost label, is
\* the host of the self URL.
OnSelfHost ==
    /\ IsSome(req.self_url) /\ IsSome(HostOf(Unwrap(req.self_url)))
    /\ IsSome(HostOf(req.subject))
    /\ LET self_host == Unwrap(HostOf(Unwrap(req.self_url)))
           host == Unwrap(HostOf(req.subject))
       IN host = self_host \/ (Len(host) > 1 /\ Tail(host) = self_host)

\* C24 (external subjects): is_external_subject returns true iff the
\* subject's host, after stripping one leftmost label (if it is not the
\* self host already), differs from the self URL's host; when the self URL
\* is `local` or is not set, every subject is external.
C24_ExternalIffOtherHost ==
    (pc = "returned" /\ resp.result # "error")
    => /\ (~IsSome(req.self_url) \/ req.self_url = Some(LocalStoreUrl))
             => resp.result = "true"
       /\ (IsSome(req.self_url) /\ req.self_url # Some(LocalStoreUrl))
             => (resp.result = "true" <=> ~OnSelfHost)

\* The part that holds: without a self URL, or with `local`, every subject
\* is external; a subject on the self host is not, and one on an unrelated
\* host is.
C24_ExternalExceptSubdomains ==
    (pc = "returned" /\ resp.result # "error")
    => /\ (~IsSome(req.self_url) \/ req.self_url = Some(LocalStoreUrl))
             => resp.result = "true"
       /\ (IsSome(req.self_url) /\ req.self_url # Some(LocalStoreUrl)
             /\ IsSome(HostOf(req.subject))
             /\ Len(Unwrap(HostOf(Unwrap(req.self_url)))) > 1)
             => (resp.result = "true"
                   <=> Unwrap(HostOf(req.subject))
                         # Unwrap(HostOf(Unwrap(req.self_url))))

\* C25 (the server owns no external resource): post_commit returns an
\* error for a commit whose subject is on another server, without calling
\* apply_opts and leaving the store as it was; any other commit is applied
\* with signature, timestamp, schema and rights validation on, the rights
\* being checked for the commit's signer.
C25_ExternalCommitRefused ==
    Returned =>
       /\ req.c.subject = SubjElsewhere
             => /\ resp.result = "external" /\ Unchanged
                /\ resp.pc = "done" /\ ~resp.accessed
                /\ resp.commit_resource = NoResource
       /\ req.c.subject = SubjA
             => /\ resp = ApplyOpts(req.c, req.opts, req.now, req.db, req.ord,
                                    resources0, index0).f
                /\ req.opts.validate_signature /\ req.opts.validate_timestamp
                /\ req.opts.validate_schema /\ req.opts.validate_rights
                /\ req.opts.validate_for_agent = Some(req.c.signer)
                /\ ~IsSome(req.c.signature) => resp.result = "no_signature"

\* A signed commit of agent A on a subject of another server was refused.
C25_Witness ==
    /\ Returned /\ req.c.subject = SubjElsewhere /\ resp.result = "external"
    /\ IsSome(req.c.signature) /\ req.c.signer = AgentA.subject
    /\ resources # BaseStore

-----------------------------------------------------------------------------
(* Claims about paths (SpecPath) *)

\* The errors the path resolver is said to have: no URL for the first item,
\* an index after a resource or after a value that is no ResourceArray, an
\* index not below the length, a shortname after a value, an unknown
\* shortname.
ListedPathErrors ==
    {"no_url_found", "index_on_resource", "not_array", "too_high_index",
     "no_more_linked_resources", "unknown_shortname"}

\* The items after the first that are not empty.
PathWords == SelectSeq(req.rest, LAMBDA x : x # "")

\* C26 (path resolver): get_path returns an error in each of the listed
\* cases; in every other case it returns a Subject or an Atom (a Subject
\* when the last item left the cursor on a resource, an Atom when on a
\* value); empty items are skipped.
C26_GetPathOutcomes ==
    pc = "returned" =>
       /\ resp.kind \in {"Subject", "Atom", "Error"}
       /\ resp.kind = "Error" => resp.error \in ListedPathErrors
       /\ (IsSome(req.mapping) /\ req.first = Str(<<"nope">>))
             => (resp.kind = "Error" /\ resp.error = "no_url_found")
       /\ (PathWords # << >> /\ IsIndex(PathWords[1])) => resp.kind = "Error"
       /\ (resp.kind # "Error" /\ PathWords # << >>)
             => (resp.kind = "Subject" <=> IsIndex(PathWords[Len(PathWords)]))
       /\ resp \in GetPath(req.first, PathWords, req.mapping, resources)
             \/ PathWords = << >>

\* The part that holds: the same, but a resource on the path that is not
\* stored is an error too, and an index into an empty array is an error or
\* a panic.
C26_GetPathOutcomesOrNotFound ==
    pc = "returned" =>
       /\ resp.kind = "Panic"
             => \E p \in {"write", "isA"} :
                   /\ Has(resources[SubjA], p) /\ resources[SubjA][p][2] = << >>
                   /\ \E k \in 1..Len(PathWords) : PathWords[k] = p
       /\ resp.kind = "Error" => resp.error \in ListedPathErrors \cup {"not_found"}
       /\ (IsSome(req.mapping) /\ req.first = Str(<<"nope">>))
             => (resp.kind = "Error" /\ resp.error = "no_url_found")
       /\ (PathWords # << >> /\ IsIndex(PathWords[1])) => resp.kind = "Error"
       /\ (resp.kind \in {"Subject", "Atom"} /\ PathWords # << >>)
             => (resp.kind = "Subject" <=> IsIndex(PathWords[Len(PathWords)]))
       /\ resp \in GetPath(req.first, PathWords, req.mapping, resources)
             \/ PathWords = << >>

-----------------------------------------------------------------------------
(* Claims about the hierarchy (SpecForest) *)

\* Following `parent` from `from`, at most `hops` times, comes to `target`.
RECURSIVE ReachesByParents(_, _, _, _)
ReachesByParents(st, from, target, hops) ==
    /\ hops > 0
    /\ Stored(st, from)
    /\ Has(st[from], "parent")
    /\ LET parent == ValueToString(st[from]["parent"])
       IN parent = target \/ ReachesByParents(st, parent, target, hops - 1)

Acyclic(st) ==
    \A s \in DOMAIN st : ~ReachesByParents(st, s, s, Cardinality(DOMAIN st))

\* C27 (the hierarchy is a forest): after any sequence of apply_opts calls
\* with validate_subject_url_parent on, from a store whose parent edges are
\* acyclic, the parent edges of the stored resources are acyclic: no
\* resource is stored with itself or a descendant as its parent.
C27_ParentsAcyclic == Acyclic(resources)

\* The part that holds: a call that creates a resource (rights validated)
\* leaves the parent edges acyclic if they were.
C27_NewResourceKeepsAcyclic ==
    (Succeeded /\ req.opts.validate_rights /\ ~Stored(resources0, req.c.subject)
       /\ Acyclic(resources0))
    => Acyclic(resources)

-----------------------------------------------------------------------------
(* Claims about datatypes (SpecTypes) *)

\* Every value of the resource has the datatype its property declares.
Conforms(pv) == \A prop \in DOMAIN pv : pv[prop][1] = DataTypeOf(prop)

\* C28 (values conform to datatypes): after any sequence of successful
\* apply_opts calls every value of the stored target conforms to the
\* datatype of its property; a push leaves a ResourceArray only under a
\* property whose datatype is ResourceArray.
C28_ValuesConform ==
    Stored(resources, SubjA) => Conforms(resources[SubjA])

\* The part that holds: a resource made by `set` and `remove` alone
\* conforms, and so does one pushed to on a property that is present.
C28_SetValuesConform ==
    (Succeeded /\ Stored(resources, SubjA)
       /\ (Stored(resources0, SubjA) => Conforms(resources0[SubjA]))
       /\ \A prop \in DOMAIN Unwrap(req.c.push) :
             Stored(resources0, SubjA) /\ Has(resources0[SubjA], prop))
    => Conforms(resources[SubjA])

-----------------------------------------------------------------------------
(* Claims about the order of the operations (SpecOrder) *)

SeqToSet(seq) == {seq[i] : i \in 1..Len(seq)}

\* The set, remove and push of the commit name pairwise disjoint properties.
DisjointFields(c) ==
    LET set == DOMAIN Unwrap(c.set)
        push == DOMAIN Unwrap(c.push)
        remove == SeqToSet(Unwrap(c.remove))
    IN set \cap push = {} /\ set \cap remove = {} /\ push \cap remove = {}

\* What apply_changes gives: failure, or the resource and the sets of atoms.
OutcomeOf(changes) ==
    IF changes.ok
    THEN [ok |-> TRUE, pv |-> changes.pv,
          rem |-> SeqToSet(changes.rem), add |-> SeqToSet(changes.add)]
    ELSE [ok |-> FALSE, pv |-> EmptyPropVals, rem |-> {}, add |-> {}]

\* C29 (order of the operations): for a commit whose set, remove and push
\* name pairwise disjoint properties, the resource apply_changes produces
\* and the sets of atoms it adds to and removes from the index are the
\* same for every order of the three loops and of the entries of each map.
C29_OrderIrrelevant ==
    (pc = "returned" /\ DisjointFields(req.c))
    => OutcomeOf(resp)
         = OutcomeOf(ApplyChanges(req.c, req.res, req.update_index, PropOrder))

\* A commit with two entries in set, two in remove and one in push was
\* applied with push first and the maps iterated backwards, and it changed
\* the resource and queued atoms.
C29_Witness ==
    /\ pc = "returned" /\ DisjointFields(req.c) /\ resp.ok
    /\ req.phases = <<"push", "set", "remove">> /\ req.ord = Reverse(PropOrder)
    /\ Cardinality(DOMAIN Unwrap(req.c.set)) = 2
    /\ Len(Unwrap(req.c.remove)) = 2
    /\ resp.pv # req.res.propvals /\ resp.rem # << >> /\ resp.add # << >>

-----------------------------------------------------------------------------
(* Claims about apply_unsafe (SpecUnsafe) *)

\* The errors of the signature, timestamp, rights, schema, parent-prefix and
\* previous-commit checks.
ValidationErrors ==
    {"no_signature", "signer_not_found", "no_public_key", "serialize",
     "bad_signature", "timestamp", "previous_commit_mismatch",
     "previous_commit_missing", "parent_prefix", "no_append_right",
     "no_self_url", "no_write_right", "schema"}

\* C30 (apply_unsafe): apply_unsafe makes no signature, timestamp, rights,
\* schema, parent-prefix or previous-commit check and does not update the
\* index: apply_changes makes no index call, and the commit and the
\* resource are saved without the index being touched.
C30_UnsafeChecksNothing ==
    Returned =>
       /\ resp.result \notin ValidationErrors
       /\ resp.index_calls = << >>
       /\ index = index0

\* An unsigned commit of agent B, who has no rights, that makes the target
\* a Doc without description, was applied and stored.
C30_Witness ==
    /\ Succeeded /\ ~IsSome(req.c.signature) /\ req.c.signer = AgentB.subject
    /\ Stored(resources, SubjA) /\ resources # resources0
    /\ HasClass(resources[SubjA], ClassUrl("Doc"))
    /\ ~Has(resources[SubjA], "description")
    /\ Stored(resources, resp.commit_resource.subject)

-----------------------------------------------------------------------------
(* Claims about CommitBuilder::sign (SpecBuild) *)

LastCommitOf(res) ==
    IF Has(res.propvals, "lastCommit")
    THEN Some(ValueToString(res.propvals["lastCommit"]))
    ELSE None

PreviousCommitErrors == {"previous_commit_mismatch", "previous_commit_missing"}

\* The version the caller signed against was the stored one when the call
\* was made.
SignedAgainstStored == procs[1] = VersionOf(resources0, req.c.subject)

\* The commit of the call has the last-commit of the held version as its
\* previous-commit, and passes the previous-commit check when the held
\* version is the stored one.
C31_SignedFromLastCommit ==
    /\ pc \in {"called", "returned"} => req.c.previous_commit = LastCommitOf(procs[1])
    /\ (Returned /\ SignedAgainstStored) => resp.result \notin PreviousCommitErrors

\* C31 as claimed: sign takes the previous-commit from the last-commit of
\* the resource (absent when it has none); a commit signed against the
\* stored version passes the previous-commit check, and a commit signed
\* against a version that a later applied commit made stale fails it.
C31_Original ==
    /\ C31_SignedFromLastCommit
    /\ (Returned /\ ~SignedAgainstStored) => resp.result \in PreviousCommitErrors

\* C31 as amended: the same, where the stale commit fails the check when
\* the resource is still stored (after a destroy the subject is new, and
\* the previous-commit of a commit on a new subject is not checked).
C31_SignPreviousCommit ==
    /\ C31_SignedFromLastCommit
    /\ (Returned /\ ~SignedAgainstStored /\ Stored(resources0, req.c.subject))
       => resp.result \in PreviousCommitErrors

\* A commit signed against a stale version that has a last-commit was
\* refused for its previous-commit.
C31_Witness ==
    /\ Returned /\ ~SignedAgainstStored
    /\ IsSome(LastCommitOf(procs[1]))
    /\ Stored(resources0, req.c.subject)
    /\ resp.result = "previous_commit_mismatch"

\* A commit signed against a version that a destroy made stale was applied.
C31_StaleAfterDestroyApplied ==
    /\ Succeeded /\ ~SignedAgainstStored
    /\ IsSome(req.c.previous_commit)
    /\ ~Stored(resources0, req.c.subject)

-----------------------------------------------------------------------------
(* Claims about get_auth_headers (SpecHeaders) *)

AllHeadersPresent == HeaderNames \subseteq DOMAIN req.map
NoHeaderPresent == HeaderNames \cap DOMAIN req.map = {}
TimestampParses ==
    /\ ToStrOk(req.map["x-atomic-timestamp"])
    /\ ParseI64(req.map["x-atomic-timestamp"]).ok
AllHeadersStrings == \A n \in HeaderNames : ToStrOk(req.map[n])

\* None iff no header is present, an error for every proper non-empty
\* subset, and the requested subject handed over in Some.
C32_NoneAndSubsets ==
    Returned =>
       /\ resp.kind = "none" <=> NoHeaderPresent
       /\ (~AllHeadersPresent /\ ~NoHeaderPresent) => resp.kind = "error"
       /\ resp.kind = "some" => resp.auth.requested_subject = req.requested_subject

\* C32 as claimed: get_auth_headers returns Some(AuthValues) with the given
\* requested subject iff all four headers are present and the timestamp
\* parses as an integer, None iff none is present, and an error for every
\* proper non-empty subset.
C32_Original ==
    /\ C32_NoneAndSubsets
    /\ Returned => (resp.kind = "some" <=> (AllHeadersPresent /\ TimestampParses))

\* C32 as amended: Some iff all four headers are present, each value is a
\* string (HeaderValue::to_str succeeds) and the timestamp parses as an
\* i64; the rest as claimed.
C32_AllOrNothing ==
    /\ C32_NoneAndSubsets
    /\ Returned =>
          (resp.kind = "some"
             <=> (AllHeadersPresent /\ AllHeadersStrings /\ TimestampParses))

\* Three of the four headers were given and the call returned an error.
C32_Witness ==
    /\ Returned
    /\ DOMAIN req.map = HeaderNames \ {"x-atomic-agent"}
    /\ resp.kind = "error"

-----------------------------------------------------------------------------
(* Claims about get_auth_from_cookie (SpecCookie) *)

CookiesOf(header) ==
    IF header = None THEN << >> ELSE Unwrap(header).cookies

IsSession(cookie) == cookie.name = "atomic_session"

\* The cookie is a session cookie whose requested_subject is the requested
\* subject or its origin.
Matches(cookie, requested_subject) ==
    /\ IsSession(cookie)
    /\ cookie.value.decode = "ok"
    /\ cookie.value.auth.requested_subject
          \in {requested_subject, OriginOf(requested_subject)}

MatchingAt ==
    {i \in 1..Len(CookiesOf(req.header)) :
        Matches(CookiesOf(req.header)[i], req.requested_subject)}

SessionsAt ==
    {i \in 1..Len(CookiesOf(req.header)) : IsSession(CookiesOf(req.header)[i])}

FirstMatching ==
    CookiesOf(req.header)[CHOOSE i \in MatchingAt : \A j \in MatchingAt : i <= j]

UnauthorizedErrors ==
    {"unauthorized_none_valid", "unauthorized_wrong_subject",
     "unauthorized_malformed"}

\* The header is a string, each of its pieces parses as a cookie, and the
\* value of each session cookie percent-decodes.
HeaderWellFormed ==
    /\ req.header # Some(NotAString)
    /\ \A i \in 1..Len(CookiesOf(req.header)) :
          /\ CookiesOf(req.header)[i] # Unparsable
          /\ CookiesOf(req.header)[i].value.decode # "bad_percent"

\* No session cookie before position i fails to decode.
DecodableBefore(i) ==
    \A j \in SessionsAt : j < i => CookiesOf(req.header)[j].value.decode = "ok"

-----------------------------------------------------------------------------
(* Claims about push (SpecPush) *)

PushOf(c) == IF IsSome(c.push) THEN Unwrap(c.push) ELSE << >>
SetOf(c) == IF IsSome(c.set) THEN Unwrap(c.set) ELSE << >>
RemovedBy(c) == IF IsSome(c.remove) THEN SeqToSet(Unwrap(c.remove)) ELSE {}

\* What the resource of the call holds under prop when the push is made:
\* the stored value, unless the commit itself sets or removes prop.
BeforePush(prop) ==
    IF Has(SetOf(req.c), prop) THEN Some(SetOf(req.c)[prop])
    ELSE IF prop \in RemovedBy(req.c) THEN None
    ELSE IF Stored(resources0, req.c.subject) /\ Has(resources0[req.c.subject], prop)
    THEN Some(resources0[req.c.subject][prop])
    ELSE None

ElementsBefore(prop) ==
    IF IsSome(BeforePush(prop)) THEN Unwrap(BeforePush(prop))[2] ELSE << >>

\* The call pushes to a value that is no array, or pushes no array.
PushTypeError ==
    \E prop \in DOMAIN PushOf(req.c) :
        \/ IsSome(BeforePush(prop)) /\ Unwrap(BeforePush(prop))[1] # "arr"
        \/ PushOf(req.c)[prop][1] # "arr"

\* The atoms of the add-calls made on the index for the elements pushed to prop
PushedAtoms(prop) ==
    LET adds == SelectSeq(resp.index_calls,
                    LAMBDA call : call[1] = "add" /\ call[2].p = prop
                                     /\ call[2].v[1] = "url")
    IN [i \in 1..Len(adds) |-> adds[i][2]]

-----------------------------------------------------------------------------
(* Claims about destroying an absent subject (SpecUnsafe) *)

\* C35 (destroy of an absent subject): a commit with destroy = true whose
\* subject is not in the store fails and leaves the store as it was: no
\* resource is created and the commit resource is not persisted.
C35_DestroyAbsentFails ==
    (Returned /\ IsDestroy(req.c) /\ ~Stored(resources0, req.c.subject))
    => /\ resp.result # "ok"
       /\ resources = resources0
       /\ index = index0
       /\ ~Stored(resources, req.c.subject)
       /\ CommitUrls(resources) = CommitUrls(resources0)

\* With every validation off, the destroy of an absent subject reached
\* remove_resource and failed there.
C35_Witness ==
    /\ Returned /\ IsDestroy(req.c) /\ ~Stored(resources0, req.c.subject)
    /\ resp.result = "remove_absent"
    /\ resources = resources0

-----------------------------------------------------------------------------
(* Claims about the rights check of get_path (SpecPathRights) *)

PathOk == pc = "returned" /\ resp.kind \in {"Subject", "Atom"}

\* The agent may read the resource at the subject (which is stored).
MayRead(subject, agent) ==
    Stored(resources, subject) /\ CheckRead(resources, GetResource(resources, subject), agent)

\* With at most MaxPathItems items after the first, a path resolves the
\* starting resource and at most one resource reached through an index,
\* which is the subject of the result.
ResolvedSubjects == {req.first, resp.subject}

\* C36 as claimed: with for_agent given, get_path returns Ok only if the
\* agent may read the starting resource and every resource reached through
\* an index, also for a path of a single token; without for_agent no
\* rights check is made.
C36_ReadRightsOnEveryResource ==
    /\ (PathOk /\ IsSome(req.for_agent))
       => \A subject \in ResolvedSubjects : MayRead(subject, Unwrap(req.for_agent))
    /\ (pc = "returned" /\ ~IsSome(req.for_agent)) => resp.error # "unauthorized"

\* The part of C36 that holds: the same for paths of more than one token.
C36_ReadRightsBeyondFirstToken ==
    /\ (PathOk /\ IsSome(req.for_agent) /\ req.rest # << >>)
       => \A subject \in ResolvedSubjects : MayRead(subject, Unwrap(req.for_agent))
    /\ (pc = "returned" /\ ~IsSome(req.for_agent)) => resp.error # "unauthorized"

\* A path of a single token is resolved for an agent that may not read
\* the resource.
C36_SingleTokenUnchecked ==
    /\ PathOk /\ req.rest = << >> /\ IsSome(req.for_agent)
    /\ ~MayRead(req.first, Unwrap(req.for_agent))

-----------------------------------------------------------------------------
(* Claims about the array index of get_path (SpecPath) *)

\* The resource the path of the call starts at
PathStart ==
    IF IsSome(req.mapping) THEN TryMappingOrUrl(Unwrap(req.mapping), req.first)
    ELSE Some(req.first)

\* The call applies a decimal index to a ResourceArray of its starting
\* resource: the path is `<start> <property> <index>`.
IndexOnArray ==
    /\ pc = "returned"
    /\ Len(req.rest) = 2 /\ IsIndex(req.rest[2]) /\ req.rest[1] # ""
    /\ IsSome(PathStart) /\ Stored(resources, Unwrap(PathStart))
    /\ Has(resources[Unwrap(PathStart)], req.rest[1])
    /\ resources[Unwrap(PathStart)][req.rest[1]][1] = "arr"

IndexedArray == resources[Unwrap(PathStart)][req.rest[1]][2]

\* The index gives the element at its position when it is below the length
\* of the array (an error if no resource is stored there), and the error
\* of a too high index otherwise.
IndexOutcome ==
    LET i == ParseU32(req.rest[2])
    IN IF i < Len(IndexedArray)
       THEN IF Stored(resources, IndexedArray[i + 1])
            THEN resp = PathSubject(IndexedArray[i + 1])
            ELSE resp = PathError("not_found")
       ELSE resp = PathError("too_high_index")

\* C37 (array index): in get_path a decimal index i on a ResourceArray of
\* length n gives the element at position i when i < n and an error value,
\* never a panic or an arithmetic underflow, when i >= n, for every n >= 0.
C37_IndexErrorNeverPanics == IndexOnArray => IndexOutcome

\* The part of C37 that holds: the same for arrays that are not empty.
C37_IndexOnNonEmptyArray == (IndexOnArray /\ Len(IndexedArray) > 0) => IndexOutcome

\* An index on an empty array made the call panic.
C37_EmptyArrayPanics ==
    IndexOnArray /\ Len(IndexedArray) = 0 /\ resp = PathPanic

-----------------------------------------------------------------------------
(* Claims about create_drive (SpecDrive) *)

\* Both threads have returned from create_drive for the same name.
BothCreatedSameDrive ==
    /\ \A t \in Threads : procs[t].pc = "done"
    /\ procs[1].c.subject = procs[2].c.subject

\* The rights of the stored drive are those of the call of thread t.
DriveRightsOf(t) ==
    /\ Stored(resources, procs[t].c.subject)
    /\ Has(resources[procs[t].c.subject], "write")
    /\ resources[procs[t].c.subject]["write"] = VArr(<<DriveAgent(t)>>)

\* C38 (create_drive succeeds at most once per name): of two calls for the
\* same name, in any interleaving of the existence check and the save, one
\* succeeds and the other fails, and the drive keeps the rights of the one
\* that succeeded.
C38_CreateDriveAtMostOnce ==
    BothCreatedSameDrive
    => \E t \in Threads :
          /\ procs[t].result = "ok"
          /\ procs[3 - t].result # "ok"
          /\ DriveRightsOf(t)

\* The part of C38 that holds: a call that makes its check when the drive
\* is stored fails with 'Drive URL is already taken'; it has written
\* nothing, as it ends at the check.
C38_TakenWhenStored ==
    \A t \in Threads :
       (procs[t].pc = "done" /\ procs[t].result = "drive_taken")
       => /\ Stored(resources, procs[t].c.subject)
          /\ ~Stored(resources, procs[t].commit_resource.subject)
          /\ ~procs[t].accessed

\* Both calls for the same name succeeded, and the drive has the rights of
\* the second only.
C38_BothSucceed ==
    /\ BothCreatedSameDrive
    /\ \A t \in Threads : procs[t].result = "ok"
    /\ \E t \in Threads : DriveRightsOf(t)

-----------------------------------------------------------------------------
(* Claims about CommitResponse.resource_old (SpecRemove) *)

StoredBefore == GetResource(resources0, req.c.subject)

\* The response names as resource_old the resource as it was stored, and
\* every atom handed to remove_atom_from_index is an atom of it.
OldIsStoredVersion ==
    /\ resp.response_old = Some(StoredBefore)
    /\ \A i \in 1..Len(resp.index_calls) :
          resp.index_calls[i][1] = "remove"
          => resp.index_calls[i][2] \in ToAtoms(StoredBefore)

\* C39 (resource_old): for a successful apply_opts on an existing resource,
\* whatever the CommitOpts, CommitResponse.resource_old is the resource as
\* it was stored before the commit, and the index re-apply takes its
\* removed atoms from that stored version only.
C39_ResourceOldIsStored ==
    (Succeeded /\ Stored(resources0, req.c.subject)) => OldIsStoredVersion

\* The part of C39 that holds: the same when validate_rights is off or the
\* stored resource has a parent.
C39_ResourceOldUnlessDefaultParent ==
    (/\ Succeeded /\ Stored(resources0, req.c.subject)
     /\ (~req.opts.validate_rights \/ Has(resources0[req.c.subject], "parent")))
    => OldIsStoredVersion

\* With validate_rights on, the response has a resource_old with a parent
\* that the stored resource did not have.
C39_OldHasInventedParent ==
    /\ Succeeded /\ Stored(resources0, req.c.subject)
    /\ req.opts.validate_rights
    /\ ~Has(resources0[req.c.subject], "parent")
    /\ Has(Unwrap(resp.response_old).propvals, "parent")

-----------------------------------------------------------------------------
(* Claims about the round trip of a commit (SpecRoundTrip) *)

====
